---- MODULE Spec2Model ----
(***************************************************************************)
(* Verification model of Whisker17/swap-path.                              *)
(*                                                                         *)
(*  Spec      : the block-driven data pipeline                             *)
(*              (WebSocketManager::subscribe_new_heads ->                  *)
(*               DataSyncService::start_aggregation_task -> consumer).     *)
(*  FairSpec  : Spec with the fairness the tokio scheduler provides.       *)
(*  PathSpec  : Pathfinder::precompute_arbitrage_paths over small graphs.  *)
(*  DedupSpec : ArbitrageOpportunityTracker of the live monitor.           *)
(*  EngineSpec: the API of ArbitrageEngine with its ProfitCalculator.      *)
(*  RunSpec   : ArbitrageEngine::start_real_time_processing.               *)
(*  BatchSpec : DataAggregator::aggregate_market_data batch by batch.      *)
(*  SwapPathSpec: SwapPath values built by new, new_first, push_swap_hop   *)
(*              and invert.                                                *)
(*  GraphSpec : a TokenGraph driven through its own API.                   *)
(*  MarketSpec: the Market behind the RwLock of DataSyncService.           *)
(*  SearchSpec: build_swap_paths over markets of parallel pools.           *)
(*  ContainerSpec: threads sharing the SwapPathsContainer.                  *)
(***************************************************************************)
EXTENDS Integers, Sequences, FiniteSets, TLC

(***************************************************************************)
(* Bounds of the model.                                                    *)
(***************************************************************************)
\* largest configured max_reconnect_attempts explored
MaxReconnectCfg == 1
\* number of newHeads notifications the transport delivers
MaxHeaders == 3
\* capacity of the block header channel explored (mpsc::channel(100) in the code)
BlockChanCap == 2
\* capacity of the market data channel explored (config.channel_buffer_size)
SnapChanCap == 1
\* largest number of monitored pools read from the market per block
MaxMonitored == 1
\* the history counter of reconnection attempts saturates here
AttemptCap == MaxReconnectCfg + 2
\* tokens of the graphs explored: WMNT and NumTokens - 1 others
NumTokens == 3
\* pools of the graphs explored
MaxPools == 4
\* the hops create_arbitrage_pathfinder searches: Pathfinder::new(4, 50_000)
DefaultMaxHops == 4
\* the larger Pathfinder.max_paths_limit explored (the smaller is 1)
MaxPathsCfg == 3
\* distinct path hashes the opportunities carry
NumHashes == 3
\* largest ArbitrageOpportunityTracker.max_cache_size explored
MaxCacheCfg == 3
\* submissions of the opportunity set
MaxRounds == 2
\* the larger min_profit_threshold_mnt_wei explored (the smaller is 0)
HighThreshold == 5000
\* the gas_per_transaction explored
GasPerTransaction == 7
\* snapshots the data layer produces for the run loop
MaxSnapshots == 3
\* capacity of the opportunity channel
OppChanCap == 1
\* pools of the market whose reserves are aggregated batch by batch
MaxBatchPools == 3
\* largest DataAggregator.max_pools_per_batch explored
MaxBatchSize == 2
\* blocks aggregated batch by batch
MaxBlocks == 2
\* longest path list evaluated in both modes
MaxPathList == 2
\* tokens plus pools of the SwapPath values explored
MaxPathItems == 3
\* pool ids offered to the TokenGraph and the Market
MaxGraphPools == 2
\* largest max_hops passed to build_swap_paths
MaxGraphHops == 3
\* pools of the markets whose swap paths are built, and the largest max_hops there
MaxSearchPools == 4
\* threads sharing the path container, and calls each of them makes
MaxContainerThreads == 2
MaxContainerCalls == 2

VARIABLES
    \* ---- WebSocketManager::subscribe_new_heads task
    max_reconnect_attempts, \* self.max_reconnect_attempts
    ws_pc,                  \* position of the spawned task
    reconnect_count,        \* let mut reconnect_count
    first_connection,       \* let mut first_connection
    block_chan,             \* headers queued in (block_tx, block_rx)
    block_tx_open,          \* block_tx not yet dropped (task alive)
    block_rx_open,          \* block_rx not yet dropped (aggregation task alive)
    shutdown_pending,       \* a () queued in (shutdown_tx, shutdown_rx)
    shutdown_sent,          \* stop() has sent the shutdown signal
    next_seq,               \* arrival index of the next header of the transport
    attempts,               \* history: reconnection attempts since last Streaming
    last_drop,              \* history: arrival index of the last header dropped on Full
    \* ---- DataSyncService aggregation task and downstream consumer
    agg_pc,                 \* "running" | "ended"
    agg_last,               \* history: outcome of the last processed header
    snap_chan,              \* snapshots queued in (market_data_tx, market_data_rx)
    snap_rx_open,           \* market_data_rx still held by the consumer
    market_data_tx,         \* DataSyncService.market_data_tx: the service is alive and holds the sender
    delivered,              \* history: header and block number of each snapshot received
    \* ---- Pathfinder::precompute_arbitrage_paths
    pf_pc,                  \* "idle" | "edges" | "pools" | "done"
    pool_tokens,            \* graph: pool id -> <<token0, token1>>
    pool_active,            \* graph: pool id -> PoolEdge.is_active
    max_hops,               \* Pathfinder.max_hops
    max_paths_limit,        \* Pathfinder.max_paths_limit
    edges_left,             \* neighbours of WMNT whose edge is not yet explored
    neighbor_node,          \* the neighbour whose edge is being explored
    pools_left,             \* pools of the current edge not yet explored
    all_paths,              \* let mut all_paths
    visited_global,         \* let mut visited_global
    \* ---- ArbitrageOpportunityTracker
    processed_opportunities, \* HashSet<SwapPathHash>
    max_cache_size,          \* self.max_cache_size
    dd_last,                 \* history: last is_new_opportunity call
    dd_batch,                \* the opportunity set being submitted
    dd_idx,                  \* position of filter_new_opportunities in the batch
    dd_round,                \* how many times the batch has been submitted
    dd_out,                  \* result vector of each submission
    \* ---- ArbitrageEngine and its ProfitCalculator
    eng_config,              \* ArbitrageEngine.config
    calc_config,             \* ArbitrageEngine.profit_calculator.config
    is_initialized,          \* ArbitrageEngine.is_initialized
    precomputed_paths,       \* ArbitrageEngine.precomputed_paths
    eng_pc,                  \* "api" | "initializing" | "recv" | "sending" | "returned"
    eng_last,                \* history: the last call of the engine's API
    market_data_receiver,    \* the engine's receiver: set or not, and the snapshots queued
    market_tx_open,          \* the sender of the snapshot channel is alive
    next_snapshot,           \* number of the next snapshot produced
    opportunity_chan,        \* batches queued in opportunity_sender's channel
    opportunity_rx_open,     \* the receiver of the opportunity channel is alive
    pending_batch,           \* the batch opportunity_sender.send is waiting to queue
    batches_received,        \* history: the batches the downstream consumer received
    optimal_input,           \* table of find_optimal_input_amount for the inputs explored
    \* ---- DataAggregator::aggregate_market_data, batch by batch
    monitored_pools,         \* the argument monitored_pools
    max_pools_per_batch,     \* DataAggregator.max_pools_per_batch
    aggregate_pc,            \* "idle" | "batches" | "returned"
    batch_idx,               \* index of the next batch of pool_batches
    all_pool_data,           \* let mut all_pool_data
    total_successful,        \* let mut total_successful
    total_failed,            \* let mut total_failed
    previous_reserves,       \* DataAggregator.previous_reserves
    aggregate_result,        \* the Result<MarketSnapshot> returned
    failed_batches,          \* history: batches whose multicall returned Err
    read_reserves,           \* history: pool -> reserves read in the batches that returned Ok
    blocks_aggregated,       \* history: calls of aggregate_market_data so far
    \* ---- SwapPath values
    swap_paths,              \* the SwapPath values held, by slot
    \* ---- TokenGraph and Market
    token_graph,             \* Market.token_graph: the TokenGraph
    market_without_lock,     \* Market.market_without_lock: pools_disabled, pools_exists, token_to_pool
    mk_last,                 \* history: the last call on the graph or the market and what it returned;
                             \* for the market also the pools added and the pools last disabled
    task_pc,                 \* position of each task of the concurrent callers
    chain_pools              \* the pools that exist: pool id -> MockPool { address, token0, token1 }

ws_vars == <<max_reconnect_attempts, ws_pc, reconnect_count, first_connection,
             block_chan, block_tx_open, block_rx_open, shutdown_pending,
             shutdown_sent, next_seq, attempts, last_drop>>
agg_vars == <<agg_pc, agg_last, snap_chan, snap_rx_open, market_data_tx, delivered>>
pf_vars == <<pf_pc, pool_tokens, pool_active, max_hops, max_paths_limit,
             edges_left, neighbor_node, pools_left, all_paths, visited_global>>
dd_vars == <<processed_opportunities, max_cache_size, dd_last, dd_batch,
             dd_idx, dd_round, dd_out>>
eng_vars == <<eng_config, calc_config, is_initialized, precomputed_paths, eng_pc,
              eng_last, market_data_receiver, market_tx_open, next_snapshot,
              opportunity_chan, opportunity_rx_open, pending_batch, batches_received,
              optimal_input>>
batch_vars == <<monitored_pools, max_pools_per_batch, aggregate_pc, batch_idx,
                all_pool_data, total_successful, total_failed, previous_reserves,
                aggregate_result, failed_batches, read_reserves, blocks_aggregated>>
sp_vars == <<swap_paths>>
tg_vars == <<token_graph, market_without_lock, mk_last, task_pc, chain_pools>>
vars == <<ws_vars, agg_vars, pf_vars, dd_vars, eng_vars, batch_vars, sp_vars, tg_vars>>

Min(a, b) == IF a < b THEN a ELSE b

(***************************************************************************)
(* Initial values of each component.                                       *)
(***************************************************************************)
WsInit ==
    /\ max_reconnect_attempts \in 0..MaxReconnectCfg
    /\ ws_pc = "loop_top"
    /\ reconnect_count = 0
    /\ first_connection = TRUE
    /\ block_chan = <<>>
    /\ block_tx_open = TRUE
    /\ block_rx_open = TRUE
    /\ shutdown_pending = FALSE
    /\ shutdown_sent = FALSE
    /\ next_seq = 1
    /\ attempts = 0
    /\ last_drop = 0

AggInit ==
    /\ agg_pc = "running"
    /\ agg_last = "none"
    /\ snap_chan = <<>>
    /\ snap_rx_open = TRUE
    /\ market_data_tx = TRUE
    /\ delivered = <<>>

PfIdle ==
    /\ pf_pc = "idle"
    /\ pool_tokens = <<>>
    /\ pool_active = <<>>
    /\ max_hops = 0
    /\ max_paths_limit = 0
    /\ edges_left = {}
    /\ neighbor_node = 0
    /\ pools_left = {}
    /\ all_paths = <<>>
    /\ visited_global = {}

\* no call of is_new_opportunity yet; order lists the members of the set from
\* the oldest insertion to the newest
NoCall ==
    [hash |-> 0, present |-> FALSE, new |-> FALSE, at_capacity |-> FALSE,
     evicted |-> {}, oldest |-> {}, order |-> <<>>]

DdIdle ==
    /\ processed_opportunities = {}
    /\ max_cache_size = 0
    /\ dd_last = NoCall
    /\ dd_batch = <<>>
    /\ dd_idx = 0
    /\ dd_round = 0
    /\ dd_out = <<>>

\* market_data_receiver: None, with the queue of the channel behind it
NoReceiver == [set |-> FALSE, queue |-> <<>>]

\* no call of the engine's API yet
NoEngineCall == [tick |-> FALSE, op |-> "none", result |-> "none"]

\* no aggregate_market_data call has been made yet: DataAggregator::new
NoResult == [ok |-> FALSE, pending |-> TRUE]

BatchNew ==
    /\ monitored_pools = <<>>
    /\ aggregate_pc = "idle"
    /\ batch_idx = 0
    /\ all_pool_data = <<>>
    /\ total_successful = 0
    /\ total_failed = 0
    /\ previous_reserves = <<>>
    /\ aggregate_result = NoResult
    /\ failed_batches = {}
    /\ read_reserves = <<>>
    /\ blocks_aggregated = 0

BatchIdle == max_pools_per_batch = 0 /\ BatchNew

\* no SwapPath has been built
SpIdle == swap_paths = <<>>

\* TokenGraph::new
TokenGraphNew ==
    [nodes |-> <<>>, edges |-> <<>>, pools |-> <<>>, tokens |-> {},
     token_index |-> <<>>, pool_index |-> <<>>]

\* SwapPathsContainer::new: pool_paths maps a pool id to its map from path hash
\* to path
SwapPathsContainerNew == [swap_path_hashes |-> {}, pool_paths |-> <<>>]

\* MarketWithoutLock::default
MarketWithoutLockNew ==
    [pools_disabled |-> {}, pools_exists |-> {}, token_to_pool |-> {},
     swap_paths |-> SwapPathsContainerNew]

\* no call made on the graph or the market yet
NoMarketCall == [op |-> "none"]

\* the graph and the market are not in use
TgIdle ==
    /\ token_graph = TokenGraphNew
    /\ market_without_lock = MarketWithoutLockNew
    /\ mk_last = NoMarketCall
    /\ task_pc = <<>>
    /\ chain_pools = <<>>

EngIdle ==
    /\ eng_config = <<>>
    /\ calc_config = <<>>
    /\ is_initialized = FALSE
    /\ precomputed_paths = <<>>
    /\ eng_pc = "returned"
    /\ eng_last = NoEngineCall
    /\ market_data_receiver = NoReceiver
    /\ market_tx_open = FALSE
    /\ next_snapshot = 1
    /\ opportunity_chan = <<>>
    /\ opportunity_rx_open = FALSE
    /\ pending_batch = <<>>
    /\ batches_received = <<>>
    /\ optimal_input = <<>>

(***************************************************************************)
(* WebSocketManager::subscribe_new_heads: the spawned task.                *)
(***************************************************************************)

\* the task returns: block_tx and shutdown_rx are dropped
TaskExit ==
    /\ ws_pc' = "exited"
    /\ block_tx_open' = FALSE
    /\ shutdown_pending' = FALSE

\* variant: the loop gives up one reconnection later
LoopTopOneMore ==
    /\ ws_pc = "loop_top"
    /\ IF ~first_connection
       THEN /\ reconnect_count' = reconnect_count + 1
            /\ IF reconnect_count > max_reconnect_attempts
               THEN /\ TaskExit
                    /\ UNCHANGED attempts
               ELSE /\ ws_pc' = "sleeping"
                    /\ attempts' = Min(attempts + 1, AttemptCap)
                    /\ UNCHANGED <<block_tx_open, shutdown_pending>>
            /\ UNCHANGED first_connection
       ELSE /\ first_connection' = FALSE
            /\ ws_pc' = "connecting"
            /\ UNCHANGED <<reconnect_count, attempts, block_tx_open, shutdown_pending>>
    /\ UNCHANGED <<max_reconnect_attempts, block_chan, block_rx_open, shutdown_sent,
                   next_seq, last_drop>>
    /\ UNCHANGED <<agg_vars, pf_vars, dd_vars, eng_vars, batch_vars, sp_vars, tg_vars>>

\* top of `loop`: count the reconnection, give up above the cap, else sleep
LoopTop ==
    /\ ws_pc = "loop_top"
    /\ IF ~first_connection
       THEN /\ reconnect_count' = reconnect_count + 1
            /\ IF reconnect_count + 1 > max_reconnect_attempts
               THEN /\ TaskExit
                    /\ UNCHANGED attempts
               ELSE /\ ws_pc' = "sleeping"
                    /\ attempts' = Min(attempts + 1, AttemptCap)
                    /\ UNCHANGED <<block_tx_open, shutdown_pending>>
            /\ UNCHANGED first_connection
       ELSE /\ first_connection' = FALSE
            /\ ws_pc' = "connecting"
            /\ UNCHANGED <<reconnect_count, attempts, block_tx_open, shutdown_pending>>
    /\ UNCHANGED <<max_reconnect_attempts, block_chan, block_rx_open, shutdown_sent,
                   next_seq, last_drop>>
    /\ UNCHANGED <<agg_vars, pf_vars, dd_vars, eng_vars, batch_vars, sp_vars, tg_vars>>

\* sleep(reconnect_delay).await completes
SleepDone ==
    /\ ws_pc = "sleeping"
    /\ ws_pc' = "connecting"
    /\ UNCHANGED <<max_reconnect_attempts, reconnect_count, first_connection, block_chan,
                   block_tx_open, block_rx_open, shutdown_pending, shutdown_sent,
                   next_seq, attempts, last_drop>>
    /\ UNCHANGED <<agg_vars, pf_vars, dd_vars, eng_vars, batch_vars, sp_vars, tg_vars>>

\* connect_and_subscribe returned ConnectionLost: the match arm, then the
\* unconditional `if reconnect_count > 0 { reconnect_count = 0 }`
ConnectionLost ==
    /\ ws_pc' = "loop_top"
    /\ reconnect_count' = IF reconnect_count > 0 THEN 0 ELSE reconnect_count

\* Url::parse, connect_async under timeout, and sending eth_subscribe
Connect ==
    /\ ws_pc = "connecting"
    /\ \E ok \in BOOLEAN :
          IF ok
          THEN /\ ws_pc' = "awaiting_confirmation"
               /\ UNCHANGED reconnect_count
          ELSE ConnectionLost
    /\ UNCHANGED <<max_reconnect_attempts, first_connection, block_chan,
                   block_tx_open, block_rx_open, shutdown_pending, shutdown_sent,
                   next_seq, attempts, last_drop>>
    /\ UNCHANGED <<agg_vars, pf_vars, dd_vars, eng_vars, batch_vars, sp_vars, tg_vars>>

\* ws_receiver.next().await for the subscription confirmation
Confirm ==
    /\ ws_pc = "awaiting_confirmation"
    /\ \E ok \in BOOLEAN :
          IF ok
          THEN /\ ws_pc' = "streaming"
               /\ attempts' = 0
               /\ UNCHANGED reconnect_count
          ELSE /\ ConnectionLost
               /\ UNCHANGED attempts
    /\ UNCHANGED <<max_reconnect_attempts, first_connection, block_chan,
                   block_tx_open, block_rx_open, shutdown_pending, shutdown_sent,
                   next_seq, last_drop>>
    /\ UNCHANGED <<agg_vars, pf_vars, dd_vars, eng_vars, batch_vars, sp_vars, tg_vars>>

\* block_tx.try_send(block_header): the queue after the call
HandleMessageDropOldest(chan, header) ==
    IF Len(chan) >= BlockChanCap THEN Append(Tail(chan), header) ELSE Append(chan, header)

handle_message(chan, header) ==
    IF Len(chan) >= BlockChanCap THEN chan ELSE Append(chan, header)

\* the headers a newHeads notification can carry: `number` is not a hex
\* number, is zero, or is the number of the block
Headers(seq) ==
    { [seq |-> seq, number_ok |-> FALSE, number |-> 0],
      [seq |-> seq, number_ok |-> TRUE, number |-> 0],
      [seq |-> seq, number_ok |-> TRUE, number |-> seq] }

\* select!: a Text message carrying a newHeads notification
StreamHeader ==
    /\ ws_pc = "streaming"
    /\ next_seq <= MaxHeaders
    /\ \E h \in Headers(next_seq) :
          IF block_rx_open
          THEN /\ block_chan' = handle_message(block_chan, h)
               /\ last_drop' = IF Len(block_chan) >= BlockChanCap
                               THEN h.seq ELSE last_drop
          ELSE \* TrySendError::Closed: handle_message returns Err, only warned
               UNCHANGED <<block_chan, last_drop>>
    /\ next_seq' = next_seq + 1
    /\ UNCHANGED <<max_reconnect_attempts, ws_pc, reconnect_count, first_connection,
                   block_tx_open, block_rx_open, shutdown_pending, shutdown_sent,
                   attempts>>
    /\ UNCHANGED <<agg_vars, pf_vars, dd_vars, eng_vars, batch_vars, sp_vars, tg_vars>>

\* select!: Close, Err, None, or a Ping whose Pong cannot be sent
StreamLost ==
    /\ ws_pc = "streaming"
    /\ ConnectionLost
    /\ UNCHANGED <<max_reconnect_attempts, first_connection, block_chan,
                   block_tx_open, block_rx_open, shutdown_pending, shutdown_sent,
                   next_seq, attempts, last_drop>>
    /\ UNCHANGED <<agg_vars, pf_vars, dd_vars, eng_vars, batch_vars, sp_vars, tg_vars>>

\* select!: shutdown_rx.recv() is ready -> NormalShutdown -> break
StreamShutdown ==
    /\ ws_pc = "streaming"
    /\ shutdown_pending
    /\ TaskExit
    /\ UNCHANGED <<max_reconnect_attempts, reconnect_count, first_connection, block_chan,
                   block_rx_open, shutdown_sent, next_seq, attempts, last_drop>>
    /\ UNCHANGED <<agg_vars, pf_vars, dd_vars, eng_vars, batch_vars, sp_vars, tg_vars>>

\* DataSyncService::stop: shutdown_tx.take() and send(()).await
Stop ==
    /\ ~shutdown_sent
    /\ shutdown_sent' = TRUE
    /\ shutdown_pending' = (ws_pc # "exited")
    /\ UNCHANGED <<max_reconnect_attempts, ws_pc, reconnect_count, first_connection,
                   block_chan, block_tx_open, block_rx_open, next_seq,
                   attempts, last_drop>>
    /\ UNCHANGED <<agg_vars, pf_vars, dd_vars, eng_vars, batch_vars, sp_vars, tg_vars>>

(***************************************************************************)
(* DataAggregator and DataSyncService::start_aggregation_task.             *)
(***************************************************************************)

\* SystemTime::now().duration_since(UNIX_EPOCH).unwrap_or_default().as_secs():
\* zero when the clock stands at or before the epoch, positive otherwise
Timestamps == {0, 1}

\* BlockHeader::block_number
block_number(header) ==
    [ok |-> header.number_ok, value |-> header.number]

\* DataAggregator::aggregate_market_data: Err, or the snapshot built from the
\* monitored pools, of which `received` returned reserves
aggregate_market_data(header, monitored_count, received, now) ==
    IF ~block_number(header).ok
    THEN [ok |-> FALSE]
    ELSE IF monitored_count = 0
    THEN [ok |-> TRUE,
          snapshot |-> [seq |-> header.seq, block_number |-> block_number(header).value,
                        timestamp |-> now, enabled |-> 0, received |-> 0]]
    ELSE [ok |-> TRUE,
          snapshot |-> [seq |-> header.seq, block_number |-> block_number(header).value,
                        timestamp |-> now, enabled |-> monitored_count,
                        received |-> received]]

\* DataAggregator::validate_snapshot
validate_snapshot_no_timestamp(snapshot, monitored_count) ==
    IF snapshot.block_number = 0 THEN "invalid_block_number"
    ELSE "ok"

validate_snapshot(snapshot, monitored_count) ==
    IF snapshot.block_number = 0 THEN "invalid_block_number"
    ELSE IF snapshot.timestamp = 0 THEN "invalid_timestamp"
    ELSE IF monitored_count > 0 /\ 2 * snapshot.received < monitored_count
         THEN "ok" \* success_rate < 0.5 is only warned about
    ELSE "ok"

\* market_data_tx.try_send(snapshot): the queue after a send that is not Closed
try_send_snapshot_front(chan, snapshot) ==
    IF Len(chan) >= SnapChanCap THEN chan ELSE <<snapshot>> \o chan

try_send_snapshot(chan, snapshot) ==
    IF Len(chan) >= SnapChanCap THEN chan ELSE Append(chan, snapshot)

\* block_rx.recv() on a non-empty queue: the header received and the queue left
recv_newest(chan) ==
    [item |-> chan[Len(chan)], rest |-> SubSeq(chan, 1, Len(chan) - 1)]

recv(chan) ==
    [item |-> Head(chan), rest |-> Tail(chan)]

\* one iteration of `while let Some(block_header) = block_rx.recv().await`
AggregateBlock ==
    /\ agg_pc = "running"
    /\ block_chan # <<>>
    /\ LET header == recv(block_chan).item IN
       \E monitored_count \in 0..MaxMonitored, now \in Timestamps :
       \E received \in 0..monitored_count :
         LET r == aggregate_market_data(header, monitored_count, received, now) IN
         IF ~r.ok
         THEN /\ agg_last' = "aggregate_error"
              /\ block_chan' = recv(block_chan).rest
              /\ UNCHANGED <<agg_pc, snap_chan, block_rx_open>>
         ELSE IF validate_snapshot(r.snapshot, monitored_count) # "ok"
         THEN /\ agg_last' = validate_snapshot(r.snapshot, monitored_count)
              /\ block_chan' = recv(block_chan).rest
              /\ UNCHANGED <<agg_pc, snap_chan, block_rx_open>>
         ELSE IF ~snap_rx_open
         THEN \* TrySendError::Closed: break, the task ends and drops block_rx
              /\ agg_last' = "channel_closed"
              /\ agg_pc' = "ended"
              /\ block_rx_open' = FALSE
              /\ block_chan' = <<>>
              /\ UNCHANGED snap_chan
         ELSE /\ agg_last' = IF Len(snap_chan) >= SnapChanCap
                          THEN "dropped_full" ELSE "submitted"
              /\ snap_chan' = try_send_snapshot(snap_chan, r.snapshot)
              /\ block_chan' = recv(block_chan).rest
              /\ UNCHANGED <<agg_pc, block_rx_open>>
    /\ UNCHANGED <<snap_rx_open, market_data_tx, delivered>>
    /\ UNCHANGED <<max_reconnect_attempts, ws_pc, reconnect_count, first_connection,
                   block_tx_open, shutdown_pending, shutdown_sent, next_seq,
                   attempts, last_drop>>
    /\ UNCHANGED <<pf_vars, dd_vars, eng_vars, batch_vars, sp_vars, tg_vars>>

\* block_rx.recv() returns None: every sender is gone and the queue is empty
AggregationEnd ==
    /\ agg_pc = "running"
    /\ block_chan = <<>>
    /\ ~block_tx_open
    /\ agg_pc' = "ended"
    /\ block_rx_open' = FALSE
    /\ UNCHANGED <<agg_last, snap_chan, snap_rx_open, market_data_tx, delivered>>
    /\ UNCHANGED <<max_reconnect_attempts, ws_pc, reconnect_count, first_connection,
                   block_chan, block_tx_open, shutdown_pending, shutdown_sent, next_seq,
                   attempts, last_drop>>
    /\ UNCHANGED <<pf_vars, dd_vars, eng_vars, batch_vars, sp_vars, tg_vars>>

\* the downstream consumer: market_data_rx.recv()
ConsumerRecv ==
    /\ snap_rx_open
    /\ snap_chan # <<>>
    /\ delivered' = Append(delivered, [seq |-> Head(snap_chan).seq,
                                       block_number |-> Head(snap_chan).block_number])
    /\ snap_chan' = Tail(snap_chan)
    /\ UNCHANGED <<agg_pc, agg_last, snap_rx_open, market_data_tx>>
    /\ UNCHANGED <<ws_vars, pf_vars, dd_vars, eng_vars, batch_vars, sp_vars, tg_vars>>

\* the downstream consumer drops market_data_rx
ConsumerDrop ==
    /\ snap_rx_open
    /\ snap_rx_open' = FALSE
    /\ snap_chan' = <<>>
    /\ UNCHANGED <<agg_pc, agg_last, market_data_tx, delivered>>
    /\ UNCHANGED <<ws_vars, pf_vars, dd_vars, eng_vars, batch_vars, sp_vars, tg_vars>>

\* the owner drops the DataSyncService after stop(): the field market_data_tx
\* is dropped with it
DropService ==
    /\ shutdown_sent
    /\ market_data_tx
    /\ market_data_tx' = FALSE
    /\ UNCHANGED <<agg_pc, agg_last, snap_chan, snap_rx_open, delivered>>
    /\ UNCHANGED <<ws_vars, pf_vars, dd_vars, eng_vars, batch_vars, sp_vars, tg_vars>>

Init == WsInit /\ AggInit /\ PfIdle /\ DdIdle /\ EngIdle /\ BatchIdle /\ SpIdle /\ TgIdle

Next ==
    \/ LoopTop
    \/ SleepDone
    \/ Connect
    \/ Confirm
    \/ StreamHeader
    \/ StreamLost
    \/ StreamShutdown
    \/ Stop
    \/ AggregateBlock
    \/ AggregationEnd
    \/ ConsumerRecv
    \/ ConsumerDrop
    \/ DropService

Spec == Init /\ [][Next]_vars

\* the scheduling of the runtime: a task that can take a step eventually takes
\* it, and select!, which polls its branches in random order, eventually takes
\* a branch that is ready again and again; what the transport delivers
\* (StreamHeader, StreamLost, the outcome of Connect and Confirm) is not forced
FairSpec ==
    /\ Spec
    /\ WF_vars(LoopTop)
    /\ WF_vars(SleepDone)
    /\ WF_vars(Connect)
    /\ WF_vars(Confirm)
    /\ SF_vars(StreamShutdown)
    /\ WF_vars(AggregateBlock)
    /\ WF_vars(AggregationEnd)

(***************************************************************************)
(* Claims about the block subscriber and the aggregation task.             *)
(***************************************************************************)

\* C1: while Streaming is not reached again, the subscriber makes at most
\* max_reconnect_attempts reconnection attempts (then it gives up and exits).
C1_AttemptsWithinCap ==
    attempts <= max_reconnect_attempts

\* C2: once the shutdown signal has been sent, the subscriber task eventually
\* closes the header channel and exits, whatever state it was in.
C2_ShutdownLeadsToExit ==
    shutdown_sent ~> (ws_pc = "exited" /\ ~block_tx_open)

\* C3: a header arriving while the header channel holds its full capacity is
\* discarded: the queue is unchanged and the producer stays in its receive loop.
C3_FullChannelDropsNewest ==
    [][(next_seq' = next_seq + 1 /\ Len(block_chan) >= BlockChanCap)
         => (block_chan' = block_chan /\ ws_pc' = "streaming")]_vars

\* C3 witness: a header has been dropped on a full channel, which is still full
C3_Witness ==
    /\ last_drop > 0
    /\ Len(block_chan) = BlockChanCap
    /\ \A i \in DOMAIN block_chan : block_chan[i].seq < last_drop

LowSuccessRate(snapshot) ==
    snapshot.enabled > 0 /\ 2 * snapshot.received < snapshot.enabled

\* C5 (as claimed): no snapshot with block number zero, timestamp zero or
\* reserves for less than half of the monitored pools is submitted downstream.
C5_NoInvalidSnapshotSubmitted ==
    \A i \in DOMAIN snap_chan :
        /\ snap_chan[i].block_number # 0
        /\ snap_chan[i].timestamp # 0
        /\ ~LowSuccessRate(snap_chan[i])

\* C5 (amended): no snapshot with block number zero or timestamp zero is
\* submitted downstream; a low success rate does not suppress submission.
C5_NoZeroBlockOrTimestampSubmitted ==
    \A i \in DOMAIN snap_chan :
        /\ snap_chan[i].block_number # 0
        /\ snap_chan[i].timestamp # 0

\* C5 witness: a snapshot with timestamp zero was built and not submitted
C5_Witness ==
    /\ agg_last = "invalid_timestamp"
    /\ snap_chan = <<>>

\* C30: with max_reconnect_attempts = 0 the subscriber never reconnects: it
\* never sleeps for a reconnection and connects only the first time round the
\* loop, and after the first connection loss it closes the header channel and
\* exits.
C30_ZeroMeansNeverRetry ==
    /\ [](max_reconnect_attempts = 0 => (attempts = 0 /\ ws_pc # "sleeping"))
    /\ [][(max_reconnect_attempts = 0 /\ ws_pc # "connecting" /\ ws_pc' = "connecting")
            => first_connection]_vars
    /\ (max_reconnect_attempts = 0 /\ ws_pc = "loop_top" /\ ~first_connection)
          ~> (ws_pc = "exited" /\ ~block_tx_open)

\* the task has exited through the reconnection cap of zero
C30_Witness ==
    /\ max_reconnect_attempts = 0
    /\ ws_pc = "exited"
    /\ reconnect_count = 1
    /\ ~block_tx_open

\* C40: if the consumer of the header channel has gone away (block_rx is
\* dropped), the block subscriber stops and releases its connection when the
\* next header arrives, instead of receiving and discarding it.
C40_ClosedHeaderChannelStopsSubscriber ==
    [][(ws_pc = "streaming" /\ ~block_rx_open /\ next_seq' # next_seq)
           => (ws_pc' = "exited" /\ ~block_tx_open')]_vars

\* the snapshot channel is closed for the consumer: no sender is left, neither
\* the clone moved into the aggregation task nor the service's own
\* market_data_tx, so that market_data_rx.recv() returns None once the queue
\* is empty
SnapshotChannelClosed == agg_pc = "ended" /\ ~market_data_tx

\* C37: once stop() has been called and the block subscriber has exited, the
\* aggregation task terminates and the snapshot channel is closed, so that the
\* downstream consumer observes end-of-stream.
C37_StopClosesSnapshotChannel ==
    (shutdown_sent /\ ws_pc = "exited") ~> SnapshotChannelClosed

(***************************************************************************)
(* TokenGraph, SwapPath and Pathfinder::precompute_arbitrage_paths.        *)
(***************************************************************************)

\* utils::constants::WMNT, as a node of the graph
WMNT == 0
Tokens == 0..(NumTokens - 1)
Pools == DOMAIN pool_tokens

\* Token::is_wrapped
is_wrapped(token) == token = WMNT

\* the unordered token pairs a pool can connect
TokenPairs == {pair \in Tokens \X Tokens : pair[1] < pair[2]}

\* graph.edges(node): the other endpoints of the edges at `node`
Neighbors(node) ==
    {t \in Tokens : \E p \in Pools : pool_tokens[p] \in {<<node, t>>, <<t, node>>}}

\* edge.weight(): the pools held by the edge between a and b
EdgePools(a, b) ==
    {p \in Pools : pool_tokens[p] \in {<<a, b>>, <<b, a>>}}

\* variant: every edge entry counts as active
is_active_always(pool) == TRUE

\* PoolEdge::is_active of the pool's entry in its edge
is_active(pool) == pool_active[pool]

\* generate_swap_path_hash: the digest is collision-free over its input, which
\* is the 20 bytes of every token address followed by the 20 bytes of every
\* pool address; a token and a pool are named by their address
generate_swap_path_hash(tokens, pools) == tokens \o pools

\* variant: the initial path with its two tokens exchanged
new_first_swapped(token_from, token_to, pool) ==
    [tokens |-> <<token_to, token_from>>, pools |-> <<pool>>, pools_map |-> {pool},
     swap_path_hash |-> generate_swap_path_hash(<<token_to, token_from>>, <<pool>>)]

\* SwapPath::new_first
new_first(token_from, token_to, pool) ==
    [tokens |-> <<token_from, token_to>>, pools |-> <<pool>>, pools_map |-> {pool},
     swap_path_hash |-> generate_swap_path_hash(<<token_from, token_to>>, <<pool>>)]

\* SwapPath::push_swap_hop on a non-empty path
push_swap_hop(path, token_to, pool) ==
    [tokens |-> Append(path.tokens, token_to), pools |-> Append(path.pools, pool),
     pools_map |-> path.pools_map \cup {pool},
     swap_path_hash |-> generate_swap_path_hash(Append(path.tokens, token_to),
                                                Append(path.pools, pool))]

\* variant: the path never reports a pool as used
contains_pool_never(path, pool) == FALSE

\* SwapPath::contains_pool
contains_pool(path, pool) == pool \in path.pools_map

Reverse(seq) == [i \in 1..Len(seq) |-> seq[Len(seq) + 1 - i]]

\* variant: the hash is recomputed over the pools in their old order
invert_stale_pool_order(path) ==
    [tokens |-> Reverse(path.tokens), pools |-> Reverse(path.pools),
     pools_map |-> path.pools_map,
     swap_path_hash |-> generate_swap_path_hash(Reverse(path.tokens), path.pools)]

\* SwapPath::invert
invert(path) ==
    [tokens |-> Reverse(path.tokens), pools |-> Reverse(path.pools),
     pools_map |-> path.pools_map,
     swap_path_hash |-> generate_swap_path_hash(Reverse(path.tokens), Reverse(path.pools))]

\* Pathfinder::generate_path_signature
generate_path_signature(path) == <<path.tokens, path.pools>>

RECURSIVE dfs_find_cycles(_, _, _, _)
RECURSIVE ExploreEdges(_, _, _, _, _)
RECURSIVE ClosePoolsBothDirections(_, _, _, _)
RECURSIVE ClosePools(_, _, _, _)
RECURSIVE ExtendPools(_, _, _, _, _)

\* variant: the closing edge is visited once per direction
ClosePoolsBothDirections(current_path, neighbor, pools, acc) ==
    IF pools = {} THEN acc
    ELSE LET pool == CHOOSE p \in pools : TRUE
             final_path == push_swap_hop(current_path, neighbor, pool)
         IN  ClosePoolsBothDirections(current_path, neighbor, pools \ {pool},
                 IF ~is_active(pool) \/ contains_pool(current_path, pool)
                 THEN acc
                 ELSE [cycles |-> acc.cycles \o <<final_path, final_path>>,
                       visited |-> acc.visited \cup {generate_path_signature(final_path)}])

\* dfs_find_cycles, lines 141-157: the pools of the edge back to WMNT
ClosePools(current_path, neighbor, pools, acc) ==
    IF pools = {} THEN acc
    ELSE LET pool == CHOOSE p \in pools : TRUE
             final_path == push_swap_hop(current_path, neighbor, pool)
         IN  ClosePools(current_path, neighbor, pools \ {pool},
                 IF ~is_active(pool) \/ contains_pool(current_path, pool)
                 THEN acc
                 ELSE [cycles |-> Append(acc.cycles, final_path),
                       visited |-> acc.visited \cup {generate_path_signature(final_path)}])

\* dfs_find_cycles, lines 167-198: the pools of the edge to another neighbour
ExtendPools(current_path, neighbor, current_hops, pools, acc) ==
    IF pools = {} THEN acc
    ELSE LET pool == CHOOSE p \in pools : TRUE
             deeper == dfs_find_cycles(push_swap_hop(current_path, neighbor, pool),
                                       neighbor, current_hops + 1, acc.visited)
         IN  ExtendPools(current_path, neighbor, current_hops, pools \ {pool},
                 IF \/ ~is_active(pool)
                    \/ contains_pool(current_path, pool)
                    \/ /\ neighbor # WMNT
                       /\ \E i \in DOMAIN current_path.tokens :
                             current_path.tokens[i] = neighbor
                 THEN acc
                 ELSE [cycles |-> acc.cycles \o deeper.cycles,
                       visited |-> deeper.visited])

\* dfs_find_cycles, lines 134-199: the edges at current_node
ExploreEdges(current_path, current_node, current_hops, neighbors, acc) ==
    IF neighbors = {} THEN acc
    ELSE LET neighbor == CHOOSE t \in neighbors : TRUE IN
         ExploreEdges(current_path, current_node, current_hops, neighbors \ {neighbor},
             IF neighbor = WMNT /\ current_hops >= 2
             THEN ClosePools(current_path, neighbor, EdgePools(current_node, neighbor), acc)
             ELSE IF is_wrapped(neighbor) /\ neighbor # WMNT
             THEN acc
             ELSE ExtendPools(current_path, neighbor, current_hops,
                              EdgePools(current_node, neighbor), acc))

\* Pathfinder::dfs_find_cycles with target_node = WMNT: the cycles found and
\* visited_global after the call
dfs_find_cycles(current_path, current_node, current_hops, visited) ==
    IF generate_path_signature(current_path) \in visited
    THEN [cycles |-> <<>>, visited |-> visited]
    ELSE IF current_hops >= max_hops
    THEN [cycles |-> <<>>, visited |-> visited]
    ELSE ExploreEdges(current_path, current_node, current_hops,
                      Neighbors(current_node), [cycles |-> <<>>, visited |-> visited])

\* the graphs explored: MaxPools pools, each between two distinct tokens and
\* active or not (pools listed by token pair, which fixes their names only)
PairRank(pair) == pair[1] * NumTokens + pair[2]

Graphs ==
    {g \in [1..MaxPools -> TokenPairs] :
        \A i \in 1..(MaxPools - 1) : PairRank(g[i]) <= PairRank(g[i + 1])}

PathInit ==
    /\ pool_tokens \in Graphs
    /\ pool_active \in [1..MaxPools -> BOOLEAN]
    /\ max_hops \in 2..DefaultMaxHops
    /\ max_paths_limit \in {1, MaxPathsCfg}
    /\ pf_pc = "edges"
    /\ edges_left = Neighbors(WMNT)
    /\ neighbor_node = 0
    /\ pools_left = {}
    /\ all_paths = <<>>
    /\ visited_global = {}

pf_config == <<pool_tokens, pool_active, max_hops, max_paths_limit>>

\* line 49: the next edge of WMNT (in the order the graph yields them)
NextEdge ==
    /\ pf_pc = "edges"
    /\ edges_left # {}
    /\ \E neighbor \in edges_left :
          /\ edges_left' = edges_left \ {neighbor}
          /\ neighbor_node' = neighbor
          /\ IF is_wrapped(neighbor)
             THEN UNCHANGED <<pf_pc, pools_left>>
             ELSE /\ pf_pc' = "pools"
                  /\ pools_left' = EdgePools(WMNT, neighbor)
    /\ UNCHANGED <<pf_config, all_paths, visited_global>>
    /\ UNCHANGED <<ws_vars, agg_vars, dd_vars, eng_vars, batch_vars, sp_vars, tg_vars>>

\* lines 59-88: the next pool of the edge (in the order the map yields them)
NextPool ==
    /\ pf_pc = "pools"
    /\ pools_left # {}
    /\ \E pool \in pools_left :
          /\ pools_left' = pools_left \ {pool}
          /\ IF ~is_active(pool)
             THEN UNCHANGED <<pf_pc, all_paths, visited_global>>
             ELSE LET paths == dfs_find_cycles(new_first(WMNT, neighbor_node, pool),
                                               neighbor_node, 1, visited_global)
                  IN  /\ all_paths' = all_paths \o paths.cycles
                      /\ visited_global' = paths.visited
                      /\ pf_pc' = IF Len(all_paths \o paths.cycles) >= max_paths_limit
                                  THEN "done" ELSE "pools"
    /\ UNCHANGED <<pf_config, edges_left, neighbor_node>>
    /\ UNCHANGED <<ws_vars, agg_vars, dd_vars, eng_vars, batch_vars, sp_vars, tg_vars>>

\* lines 90-92: after the pools of an edge
EdgeDone ==
    /\ pf_pc = "pools"
    /\ pools_left = {}
    /\ pf_pc' = IF Len(all_paths) >= max_paths_limit THEN "done" ELSE "edges"
    /\ UNCHANGED <<pf_config, edges_left, neighbor_node, pools_left, all_paths,
                   visited_global>>
    /\ UNCHANGED <<ws_vars, agg_vars, dd_vars, eng_vars, batch_vars, sp_vars, tg_vars>>

\* line 107: Ok(all_paths)
ReturnPaths ==
    /\ pf_pc = "edges"
    /\ edges_left = {}
    /\ pf_pc' = "done"
    /\ UNCHANGED <<pf_config, edges_left, neighbor_node, pools_left, all_paths,
                   visited_global>>
    /\ UNCHANGED <<ws_vars, agg_vars, dd_vars, eng_vars, batch_vars, sp_vars, tg_vars>>

WsIdle ==
    /\ max_reconnect_attempts = 0
    /\ ws_pc = "exited"
    /\ reconnect_count = 0
    /\ first_connection = FALSE
    /\ block_chan = <<>>
    /\ block_tx_open = FALSE
    /\ block_rx_open = FALSE
    /\ shutdown_pending = FALSE
    /\ shutdown_sent = TRUE
    /\ next_seq = 1
    /\ attempts = 0
    /\ last_drop = 0

AggIdle ==
    /\ agg_pc = "ended"
    /\ agg_last = "none"
    /\ snap_chan = <<>>
    /\ snap_rx_open = FALSE
    /\ market_data_tx = FALSE
    /\ delivered = <<>>

PathNext ==
    \/ NextEdge
    \/ NextPool
    \/ EdgeDone
    \/ ReturnPaths

PathSpecInit == WsIdle /\ AggIdle /\ PathInit /\ DdIdle /\ EngIdle /\ BatchIdle /\ SpIdle /\ TgIdle

PathSpec == PathSpecInit /\ [][PathNext]_vars

\* the paths returned by precompute_arbitrage_paths
Returned == {all_paths[i] : i \in DOMAIN all_paths}

\* the closed paths of `hops` hops from WMNT to WMNT that obey the enumeration
\* policies: active pools, each connecting its two tokens, no pool twice, no
\* token twice and no WMNT in between
Injective(seq) == \A i, j \in DOMAIN seq : i # j => seq[i] # seq[j]

CyclesOfLength(hops) ==
    { [tokens |-> <<WMNT>> \o mid \o <<WMNT>>, pools |-> ps,
       pools_map |-> {ps[i] : i \in DOMAIN ps},
       swap_path_hash |-> generate_swap_path_hash(<<WMNT>> \o mid \o <<WMNT>>, ps)] :
        mid \in {m \in [1..(hops - 1) -> Tokens \ {WMNT}] : Injective(m)},
        ps \in {q \in [1..hops -> Pools] : Injective(q) /\ \A i \in 1..hops : pool_active[q[i]]} }

Connected(path) ==
    \A i \in DOMAIN path.pools :
        path.pools[i] \in EdgePools(path.tokens[i], path.tokens[i + 1])

PolicyCycles ==
    UNION { {c \in CyclesOfLength(hops) : Connected(c)} : hops \in 2..max_hops }

(***************************************************************************)
(* Claims about the cycle pre-computation.                                 *)
(***************************************************************************)

\* C6: in every returned path WMNT occurs only at the first and the last position.
C6_NoIntermediateWbase ==
    pf_pc = "done" =>
        \A path \in Returned :
            \A i \in 2..(Len(path.tokens) - 1) : path.tokens[i] # WMNT

\* C7: when the path limit is not reached, every closed path from WMNT to WMNT
\* with 2 <= hops <= max_hops that obeys the policies is returned.
C7_AllPolicyCyclesReturned ==
    (pf_pc = "done" /\ Len(all_paths) < max_paths_limit) =>
        PolicyCycles \subseteq Returned

\* C8: the returned set is closed under inversion.
C8_ClosedUnderInversion ==
    pf_pc = "done" =>
        \A path \in Returned : invert(path) \in Returned

\* C9: the number of returned paths never exceeds the path limit.
C9_WithinPathLimit ==
    pf_pc = "done" => Len(all_paths) <= max_paths_limit

\* C17: no returned path contains the same pool id more than once.
C17_NoPoolTwiceInPath ==
    pf_pc = "done" => \A path \in Returned : Injective(path.pools)

\* a returned path whose second hop runs over the edge of its first hop, where
\* the first pool was available again and was skipped
C17_Witness ==
    /\ pf_pc = "done"
    /\ \E path \in Returned :
          /\ Len(path.pools) >= 3
          /\ path.pools[1] # path.pools[2]
          /\ path.pools[1] \in EdgePools(path.tokens[2], path.tokens[3])

\* C18: every returned path has WMNT as its first and as its last token.
C18_StartsAndEndsAtWbase ==
    pf_pc = "done" =>
        \A path \in Returned :
            /\ path.tokens[1] = WMNT
            /\ path.tokens[Len(path.tokens)] = WMNT

C18_Witness ==
    /\ pf_pc = "done"
    /\ \E path \in Returned : Len(path.pools) = 3 /\ path.tokens[2] # path.tokens[3]

\* C19: no returned path contains a pool whose edge entry is inactive; with an
\* inactive pool on an edge, no returned path crosses that edge through it.
C19_NoInactivePoolInPath ==
    pf_pc = "done" =>
        \A path \in Returned : \A i \in DOMAIN path.pools : pool_active[path.pools[i]]

\* a returned path crosses an edge that also holds an inactive pool
C19_Witness ==
    /\ pf_pc = "done"
    /\ \E path \in Returned : \E i \in DOMAIN path.pools : \E pool \in Pools :
          /\ ~pool_active[pool]
          /\ pool \in EdgePools(path.tokens[i], path.tokens[i + 1])

\* C20: no two entries of the returned list have the same token sequence and
\* the same pool sequence.
C20_NoDuplicatePaths ==
    pf_pc = "done" =>
        \A i, j \in DOMAIN all_paths :
            i # j => \/ all_paths[i].tokens # all_paths[j].tokens
                     \/ all_paths[i].pools # all_paths[j].pools

\* two returned paths over the same tokens that differ in their pools only
C20_Witness ==
    /\ pf_pc = "done"
    /\ \E i, j \in DOMAIN all_paths :
          /\ i # j
          /\ all_paths[i].tokens = all_paths[j].tokens
          /\ all_paths[i].pools # all_paths[j].pools

(***************************************************************************)
(* ArbitrageOpportunityTracker (examples/live_arbitrage_monitor.rs).       *)
(***************************************************************************)

\* the elements of a sequence
Range(seq) == {seq[i] : i \in DOMAIN seq}

Hashes == 1..NumHashes

\* an opportunity set: one opportunity per path, so the hashes are distinct
OpportunitySets ==
    UNION { {b \in [1..n -> Hashes] : Injective(b)} : n \in 1..NumHashes }

DedupInit ==
    /\ processed_opportunities = {}
    /\ max_cache_size \in 0..MaxCacheCfg
    /\ dd_last = NoCall
    /\ dd_batch \in OpportunitySets
    /\ dd_idx = 0
    /\ dd_round = 0
    /\ dd_out = <<>>

\* the keys `iter().take(max_cache_size / 2)` can yield: the set iterates in
\* an order of its own, so any keys of that number
KeysToRemove(processed, cache_size) ==
    {keys \in SUBSET processed :
        Cardinality(keys) = Min(cache_size \div 2, Cardinality(processed))}

\* the cleanup of is_new_opportunity: the sets it can leave
AfterCleanup(processed, cache_size) ==
    IF Cardinality(processed) >= cache_size
    THEN {processed \ keys : keys \in KeysToRemove(processed, cache_size)}
    ELSE {processed}

\* filter_new_opportunities is called with the opportunity set
SubmitSet ==
    /\ dd_round < MaxRounds
    /\ dd_idx = (IF dd_round = 0 THEN 0 ELSE Len(dd_batch))
    /\ dd_round' = dd_round + 1
    /\ dd_idx' = 0
    /\ dd_out' = Append(dd_out, <<>>)
    /\ UNCHANGED <<processed_opportunities, max_cache_size, dd_last, dd_batch>>
    /\ UNCHANGED <<ws_vars, agg_vars, pf_vars, eng_vars, batch_vars, sp_vars, tg_vars>>

\* is_new_opportunity on the next opportunity of the set
IsNewOpportunity ==
    /\ dd_round >= 1
    /\ dd_idx < Len(dd_batch)
    /\ LET hash == dd_batch[dd_idx + 1] IN
       \E cleaned \in AfterCleanup(processed_opportunities, max_cache_size) :
          /\ processed_opportunities' = cleaned \cup {hash}
          /\ dd_last' = [hash |-> hash,
                         present |-> hash \in processed_opportunities,
                         new |-> hash \notin cleaned,
                         at_capacity |-> Cardinality(processed_opportunities) >= max_cache_size,
                         evicted |-> processed_opportunities \ cleaned,
                         oldest |-> Range(SubSeq(dd_last.order, 1,
                                        Min(max_cache_size \div 2, Len(dd_last.order)))),
                         order |-> SelectSeq(dd_last.order, LAMBDA h : h \in cleaned)
                                       \o (IF hash \in cleaned THEN <<>> ELSE <<hash>>)]
          /\ dd_out' = [dd_out EXCEPT ![dd_round] =
                           IF hash \notin cleaned THEN Append(@, hash) ELSE @]
    /\ dd_idx' = dd_idx + 1
    /\ UNCHANGED <<max_cache_size, dd_batch, dd_round>>
    /\ UNCHANGED <<ws_vars, agg_vars, pf_vars, eng_vars, batch_vars, sp_vars, tg_vars>>

DedupNext ==
    \/ SubmitSet
    \/ IsNewOpportunity

DedupSpecInit == WsIdle /\ AggIdle /\ PfIdle /\ DedupInit /\ EngIdle /\ BatchIdle /\ SpIdle /\ TgIdle

DedupSpec == DedupSpecInit /\ [][DedupNext]_vars

(***************************************************************************)
(* Claims about the deduplicator.                                          *)
(***************************************************************************)

\* C10: an opportunity is reported new exactly when its hash was not in the
\* reported set when it arrived; so the same set submitted twice in a row to a
\* fresh tracker yields the whole set and then the empty set.
C10_NewIffNotReported ==
    /\ dd_last # NoCall => (dd_last.new <=> ~dd_last.present)
    /\ (dd_round = 2 /\ dd_idx = Len(dd_batch)) =>
          (dd_out[1] = dd_batch /\ dd_out[2] = <<>>)

\* C33: when the reported-hash set is at capacity and a new opportunity
\* arrives, the members evicted are exactly the oldest half in insertion
\* order; the most recently inserted members are retained.
C33_OldestHalfEvicted ==
    (dd_last # NoCall /\ dd_last.at_capacity) => dd_last.evicted = dd_last.oldest

\* C34: the number of hashes held by the deduplicator never exceeds its
\* configured capacity, for every capacity value and every sequence of
\* opportunities.
C34_SetWithinCapacity == Cardinality(processed_opportunities) <= max_cache_size

(***************************************************************************)
(* ProfitCalculator (logic/profit_calculator.rs).  Amounts count units of  *)
(* 10^16 wei (0.01 ETH): the amounts written in the code are divided by    *)
(* this unit, and the search precision, a tenth of the unit, is rounded up *)
(* to the smallest amount the model distinguishes.                         *)
(***************************************************************************)

\* find_optimal_input_amount: 0.01 ETH
MinInput == 1
\* find_optimal_input_amount: 100 ETH
MaxInput == 10000
\* ternary_search_optimal_input: 0.001 ETH, rounded up to one unit
Precision == 1
\* ternary_search_optimal_input: const MAX_ITERATIONS
MAX_ITERATIONS == 50
\* try_fixed_input_amounts: 0.1, 0.5, 1 and 5 ETH
TestAmounts == <<10, 50, 100, 500>>
\* simple_constant_product_formula: basis points of the fee
FeeDenominator == 10000
\* MockPool::get_fee
PoolFee == 0

\* Option::None of get_pool_reserves
NoReserves == <<>>

\* Result<U256, CalculationError>
Ok(value) == [ok |-> TRUE, value |-> value]
Err == [ok |-> FALSE, value |-> 0]

\* MarketSnapshot::get_pool_reserves
get_pool_reserves(snapshot, pool) == snapshot.pool_reserves[pool]

\* ProfitCalculator::simple_constant_product_formula
simple_constant_product_formula(amount_in, token_in, token_out, reserve0, reserve1, fee) ==
    IF amount_in = 0 THEN Ok(0)
    ELSE LET reserve_in == IF token_in < token_out THEN reserve0 ELSE reserve1
             reserve_out == IF token_in < token_out THEN reserve1 ELSE reserve0
             fee_multiplier == FeeDenominator - fee
             amount_in_with_fee == (amount_in * fee_multiplier) \div FeeDenominator
             numerator == amount_in_with_fee * reserve_out
             denominator == reserve_in + amount_in_with_fee
         IN  IF reserve_in = 0 \/ reserve_out = 0 THEN Err
             ELSE IF denominator = 0 THEN Err
             ELSE Ok(numerator \div denominator)

\* ProfitCalculator::simulate_swap_path: Hop[<<i, amount>>] is the loop from
\* pool i on with `amount` going in
simulate_swap_path(path, snapshot, input_amount) ==
    LET Hop[at \in Nat \X Nat] ==
            LET i == at[1]
                amount == at[2]
                reserves == get_pool_reserves(snapshot, path.pools[i])
                out == simple_constant_product_formula(amount, path.tokens[i],
                           path.tokens[i + 1], reserves[1], reserves[2], PoolFee)
            IN  IF i > Len(path.pools) THEN Ok(amount)
                ELSE IF reserves = NoReserves THEN Err
                ELSE IF ~out.ok THEN Err
                ELSE Hop[<<i + 1, out.value>>]
    IN  Hop[<<1, input_amount>>]

\* ProfitCalculator::calculate_profit_for_input: Ok((profit, output)) or Err
calculate_profit_for_input(path, snapshot, input_amount) ==
    LET output_amount == simulate_swap_path(path, snapshot, input_amount) IN
    IF ~output_amount.ok THEN [ok |-> FALSE, profit |-> 0, output |-> 0]
    ELSE IF output_amount.value <= input_amount THEN [ok |-> FALSE, profit |-> 0, output |-> 0]
    ELSE [ok |-> TRUE, profit |-> output_amount.value - input_amount,
          output |-> output_amount.value]

RECURSIVE FixedAmountsFrom(_, _, _, _)
\* try_fixed_input_amounts, the loop from test amount i on
FixedAmountsFrom(path, snapshot, i, best) ==
    IF i > Len(TestAmounts) THEN best
    ELSE LET r == calculate_profit_for_input(path, snapshot, TestAmounts[i]) IN
         FixedAmountsFrom(path, snapshot, i + 1,
             IF r.ok /\ r.profit > best.best_profit
             THEN [best_input |-> TestAmounts[i], best_output |-> r.output,
                   best_profit |-> r.profit]
             ELSE best)

\* ProfitCalculator::try_fixed_input_amounts: always Ok((best_input, best_output))
try_fixed_input_amounts(path, snapshot) ==
    LET best == FixedAmountsFrom(path, snapshot, 1,
                    [best_input |-> TestAmounts[1], best_output |-> 0, best_profit |-> 0])
    IN  [ok |-> TRUE, input |-> best.best_input, output |-> best.best_output]

\* the variables of the loop of ternary_search_optimal_input
SearchStates ==
    [left : Nat, right : Nat, iterations : Nat, best_input : Nat, best_output : Nat,
     best_profit : Nat]

\* ProfitCalculator::ternary_search_optimal_input: Loop[st] is the while loop
\* entered with the variables st
ternary_search_optimal_input(path, snapshot, left, right) ==
    LET Loop[st \in SearchStates] ==
            LET one_third == (st.right - st.left) \div 3
                mid1 == st.left + one_third
                mid2 == st.right - one_third
                profit1 == calculate_profit_for_input(path, snapshot, mid1)
                profit2 == calculate_profit_for_input(path, snapshot, mid2)
                take1 == [st EXCEPT !.best_input = mid1, !.best_output = profit1.output,
                                    !.best_profit = profit1.profit]
                take2 == [st EXCEPT !.best_input = mid2, !.best_output = profit2.output,
                                    !.best_profit = profit2.profit]
                next ==
                    IF profit1.ok /\ profit2.ok
                    THEN IF profit1.profit > profit2.profit
                         THEN [(IF profit1.profit > st.best_profit THEN take1 ELSE st)
                                   EXCEPT !.right = mid2]
                         ELSE [(IF profit2.profit > st.best_profit THEN take2 ELSE st)
                                   EXCEPT !.left = mid1]
                    ELSE IF profit1.ok
                    THEN [(IF profit1.profit > st.best_profit THEN take1 ELSE st)
                              EXCEPT !.right = mid2]
                    ELSE IF profit2.ok
                    THEN [(IF profit2.profit > st.best_profit THEN take2 ELSE st)
                              EXCEPT !.left = mid1]
                    ELSE [st EXCEPT !.left = (st.left + st.right) \div 2,
                                    !.right = ((st.left + st.right) \div 2) + Precision]
            IN  IF ~(st.right - st.left > Precision /\ st.iterations < MAX_ITERATIONS)
                THEN st
                ELSE Loop[[next EXCEPT !.iterations = st.iterations + 1]]
        final == Loop[[left |-> left, right |-> right, iterations |-> 0,
                       best_input |-> left, best_output |-> 0, best_profit |-> 0]]
    IN  IF final.best_profit > 0
        THEN [ok |-> TRUE, input |-> final.best_input, output |-> final.best_output]
        ELSE try_fixed_input_amounts(path, snapshot)

\* the token graph handed to the engine: the triangle WMNT - A - B
EngineGraph == << <<0, 1>>, <<1, 2>>, <<0, 2>> >>

\* the token and pool sequences of the two cycles of EngineGraph
EngineCycles == { << <<0, 1, 2, 0>>, <<1, 2, 3>> >>, << <<0, 2, 1, 0>>, <<3, 2, 1>> >> }

\* the reserves a snapshot carries for the three pools: profitable along
\* WMNT->A->B->WMNT, profitable the other way round, a gain below the gas cost,
\* no reserves for the pool between A and B, and an empty pool between A and B
EngineReserves ==
    { << <<10000, 40000>>, <<40000, 40000>>, <<40000, 40000>> >>,
      << <<40000, 10000>>, <<40000, 40000>>, <<40000, 40000>> >>,
      << <<1000, 1500>>, <<1000, 1000>>, <<1000, 1000>> >>,
      << <<10000, 40000>>, NoReserves, <<40000, 40000>> >>,
      << <<1000, 1000>>, <<0, 1000>>, <<1000, 1000>> >> }

\* ProfitCalculator::find_optimal_input_amount
find_optimal_input_amount(path, snapshot) ==
    ternary_search_optimal_input(path, snapshot, MinInput, MaxInput)

\* find_optimal_input_amount for every cycle and every reserve table explored;
\* the engine's specifications keep this table in optimal_input, so that the
\* search is carried out once per behaviour
SearchTable ==
    [key \in EngineCycles \X EngineReserves |->
        find_optimal_input_amount([tokens |-> key[1][1], pools |-> key[1][2]],
                                  [pool_reserves |-> key[2]])]

\* ProfitCalculator::calculate_gas_cost_mnt_wei
calculate_gas_cost_mnt_wei(config) == config.gas_per_transaction * config.gas_price_gwei

\* U256 saturating difference written as `if a > b { a - b } else { ZERO }`
PositivePart(a, b) == IF a > b THEN a - b ELSE 0

\* ProfitCalculationResult::success
success(path, optimal_input_amount, expected_output_amount, gross_profit_mnt_wei, gas_cost_mnt_wei) ==
    [path |-> path, optimal_input_amount |-> optimal_input_amount,
     expected_output_amount |-> expected_output_amount,
     gross_profit_mnt_wei |-> gross_profit_mnt_wei,
     gas_cost_mnt_wei |-> gas_cost_mnt_wei,
     net_profit_mnt_wei |-> PositivePart(gross_profit_mnt_wei, gas_cost_mnt_wei),
     calculation_successful |-> TRUE, error_message |-> "none"]

\* ProfitCalculationResult::failure
failure(path, error_message) ==
    [path |-> path, optimal_input_amount |-> 0, expected_output_amount |-> 0,
     gross_profit_mnt_wei |-> 0, gas_cost_mnt_wei |-> 0, net_profit_mnt_wei |-> 0,
     calculation_successful |-> FALSE, error_message |-> error_message]

\* variant: the reserve check of calculate_path_profit finds every pool
MissingReservesNever(path, snapshot) == FALSE

\* calculate_path_profit, lines 87-95: some pool of the path has no reserves
MissingReserves(path, snapshot) ==
    \E i \in DOMAIN path.pools : get_pool_reserves(snapshot, path.pools[i]) = NoReserves

\* ProfitCalculator::calculate_path_profit
calculate_path_profit(config, path, snapshot) ==
    IF MissingReserves(path, snapshot) THEN failure(path, "missing_reserves")
    ELSE LET \* find_optimal_input_amount(path, snapshot), read from the table
             optimal == optimal_input[<< <<path.tokens, path.pools>>,
                                         snapshot.pool_reserves >>]
         IN
         IF optimal.ok
         THEN success(path, optimal.input, optimal.output,
                      PositivePart(optimal.output, optimal.input),
                      calculate_gas_cost_mnt_wei(config))
         ELSE failure(path, "optimal_input")

\* ProfitCalculator::calculate_profits_sequential
calculate_profits_sequential(config, paths, snapshot) ==
    [i \in DOMAIN paths |-> calculate_path_profit(config, paths[i], snapshot)]

\* the orders in which rayon's workers can finish n items: order[k] is the
\* index of the item finished k-th
CompletionOrders(n) == {order \in [1..n -> 1..n] : \A a, b \in 1..n : a # b => order[a] # order[b]}

\* variant: collect() takes the results in the order the workers finish them
par_iter_map_collect_as_completed(config, paths, snapshot, order) ==
    [k \in DOMAIN paths |-> calculate_path_profit(config, paths[order[k]], snapshot)]

\* paths.par_iter().map(|path| calculate_path_profit(..)).collect(): the items
\* are mapped in the order `order`, and collect() of an indexed parallel
\* iterator places every result at the index of its item
par_iter_map_collect(config, paths, snapshot, order) ==
    LET finished == [k \in DOMAIN paths |->
                        [index |-> order[k],
                         result |-> calculate_path_profit(config, paths[order[k]], snapshot)]]
    IN  [i \in DOMAIN paths |->
            finished[CHOOSE k \in DOMAIN paths : finished[k].index = i].result]

\* ProfitCalculator::calculate_profits_parallel; the result of the parallel
\* branch is computed for one completion order here and compared over all
\* completion orders by the claim about the two modes
calculate_profits_parallel(config, paths, snapshot) ==
    IF ~config.enable_parallel_calculation
    THEN calculate_profits_sequential(config, paths, snapshot)
    ELSE par_iter_map_collect(config, paths, snapshot,
                              CHOOSE order \in CompletionOrders(Len(paths)) : TRUE)

(***************************************************************************)
(* ArbitrageEngine (logic/arbitrage_engine.rs).                            *)
(***************************************************************************)

\* ArbitrageOpportunity::new (profit_margin_percent and discovered_at left out)
ArbitrageOpportunity(path, optimal_input_amount, expected_output_amount, gross_profit_mnt_wei, gas_cost_mnt_wei) ==
    [path |-> path, optimal_input_amount |-> optimal_input_amount,
     gross_profit_mnt_wei |-> gross_profit_mnt_wei,
     gas_cost_mnt_wei |-> gas_cost_mnt_wei,
     net_profit_mnt_wei |-> PositivePart(gross_profit_mnt_wei, gas_cost_mnt_wei),
     expected_output_amount |-> expected_output_amount]

\* ProfitCalculationResult::to_opportunity: <<>> for None, <<opportunity>> for Some
to_opportunity(result) ==
    IF result.calculation_successful /\ result.net_profit_mnt_wei # 0
    THEN <<ArbitrageOpportunity(result.path, result.optimal_input_amount,
                                result.expected_output_amount,
                                result.gross_profit_mnt_wei, result.gas_cost_mnt_wei)>>
    ELSE <<>>

\* variant: the filter of process_market_snapshot without the threshold
PassesFilterAnySuccess(config, result) == result.calculation_successful

\* process_market_snapshot, lines 110-111: the condition of the filter (the
\* file names the two amounts net_profit_usd and min_profit_threshold_usd; the
\* types it uses declare them as net_profit_mnt_wei and
\* min_profit_threshold_mnt_wei)
PassesFilter(config, result) ==
    /\ result.calculation_successful
    /\ result.net_profit_mnt_wei > config.min_profit_threshold_mnt_wei

RECURSIVE FilterMapFrom(_, _, _)
\* process_market_snapshot, lines 107-118: filter_map over the results from i on
FilterMapFrom(config, results, i) ==
    IF i > Len(results) THEN <<>>
    ELSE (IF PassesFilter(config, results[i]) THEN to_opportunity(results[i]) ELSE <<>>)
         \o FilterMapFrom(config, results, i + 1)

\* ArbitrageEngine::process_market_snapshot
process_market_snapshot(config, calculator_config, initialized, paths, snapshot) ==
    IF ~initialized THEN [ok |-> FALSE, opportunities |-> <<>>]
    ELSE [ok |-> TRUE,
          opportunities |->
              FilterMapFrom(config,
                  calculate_profits_parallel(calculator_config, paths, snapshot), 1)]

\* variant: update_config without the check of the fixed settings
update_config_unchecked(config, initialized, new_config) ==
    [result |-> "ok", config |-> new_config]

\* ArbitrageEngine::update_config: the result and the configuration afterwards
update_config(config, initialized, new_config) ==
    IF /\ initialized
       /\ \/ new_config.max_hops # config.max_hops
          \/ new_config.max_precomputed_paths # config.max_precomputed_paths
    THEN [result |-> "err", config |-> config]
    ELSE [result |-> "ok", config |-> new_config]

\* the configurations explored
Configs ==
    [min_profit_threshold_mnt_wei : {0, HighThreshold},
     max_hops : {3, DefaultMaxHops},
     gas_price_gwei : {1, 2},
     gas_per_transaction : {GasPerTransaction},
     max_precomputed_paths : {1, MaxPathsCfg},
     enable_parallel_calculation : BOOLEAN]

\* the configurations an engine is constructed with
InitialConfigs ==
    {c \in Configs : /\ c.min_profit_threshold_mnt_wei = HighThreshold
                     /\ c.gas_price_gwei = 2
                     /\ c.enable_parallel_calculation}

\* the pool between B and WMNT is enabled or disabled
EngineActive == {<<TRUE, TRUE, TRUE>>, <<TRUE, TRUE, FALSE>>}

\* ArbitrageEngine::new(config)
EngineNew(configs) ==
    /\ eng_config \in configs
    /\ calc_config = eng_config
    /\ is_initialized = FALSE
    /\ precomputed_paths = <<>>
    /\ eng_pc = "api"
    /\ eng_last = NoEngineCall
    /\ pf_pc = "idle"
    /\ pool_tokens = EngineGraph
    /\ pool_active \in EngineActive
    /\ max_hops = 0
    /\ max_paths_limit = 0
    /\ edges_left = {}
    /\ neighbor_node = 0
    /\ pools_left = {}
    /\ all_paths = <<>>
    /\ visited_global = {}
    /\ optimal_input = SearchTable

EngineInit ==
    /\ EngineNew(InitialConfigs)
    /\ market_data_receiver = NoReceiver
    /\ market_tx_open = FALSE
    /\ next_snapshot = 1
    /\ opportunity_chan = <<>>
    /\ opportunity_rx_open = FALSE
    /\ pending_batch = <<>>
    /\ batches_received = <<>>

eng_run_vars == <<market_data_receiver, market_tx_open, next_snapshot,
                  opportunity_chan, opportunity_rx_open, pending_batch,
                  batches_received, optimal_input>>

\* variant: a repeated initialize reports an error
InitializeAgainError ==
    /\ eng_pc = "api"
    /\ is_initialized
    /\ eng_last' = [tick |-> ~eng_last.tick, op |-> "initialize", result |-> "err",
                    was_initialized |-> TRUE]
    /\ UNCHANGED <<eng_config, calc_config, is_initialized, precomputed_paths, eng_pc,
                   eng_run_vars>>
    /\ UNCHANGED <<ws_vars, agg_vars, pf_vars, dd_vars, batch_vars, sp_vars, tg_vars>>

\* initialize, lines 52-55: the engine is initialized already
InitializeAgain ==
    /\ eng_pc = "api"
    /\ is_initialized
    /\ eng_last' = [tick |-> ~eng_last.tick, op |-> "initialize", result |-> "ok",
                    was_initialized |-> TRUE]
    /\ UNCHANGED <<eng_config, calc_config, is_initialized, precomputed_paths, eng_pc,
                   eng_run_vars>>
    /\ UNCHANGED <<ws_vars, agg_vars, pf_vars, dd_vars, batch_vars, sp_vars, tg_vars>>

\* initialize, lines 57-61: Pathfinder::new(max_hops, max_precomputed_paths) and
\* the call of precompute_arbitrage_paths, which NextEdge .. ReturnPaths carry out
InitializeBegin ==
    /\ eng_pc = "api"
    /\ ~is_initialized
    /\ eng_pc' = "initializing"
    /\ max_hops' = eng_config.max_hops
    /\ max_paths_limit' = eng_config.max_precomputed_paths
    /\ pf_pc' = "edges"
    /\ edges_left' = Neighbors(WMNT)
    /\ neighbor_node' = 0
    /\ pools_left' = {}
    /\ all_paths' = <<>>
    /\ visited_global' = {}
    /\ UNCHANGED <<pool_tokens, pool_active>>
    /\ UNCHANGED <<eng_config, calc_config, is_initialized, precomputed_paths, eng_last,
                   eng_run_vars>>
    /\ UNCHANGED <<ws_vars, agg_vars, dd_vars, batch_vars, sp_vars, tg_vars>>

\* initialize, lines 63-77: the paths are back
InitializeEnd ==
    /\ eng_pc = "initializing"
    /\ pf_pc = "done"
    /\ eng_pc' = "api"
    /\ IF all_paths = <<>>
       THEN /\ eng_last' = [tick |-> ~eng_last.tick, op |-> "initialize",
                            result |-> "err", was_initialized |-> FALSE]
            /\ UNCHANGED <<precomputed_paths, is_initialized>>
       ELSE /\ precomputed_paths' = all_paths
            /\ is_initialized' = TRUE
            /\ eng_last' = [tick |-> ~eng_last.tick, op |-> "initialize",
                            result |-> "ok", was_initialized |-> FALSE]
    /\ pf_pc' = "idle"
    /\ edges_left' = {}
    /\ neighbor_node' = 0
    /\ pools_left' = {}
    /\ all_paths' = <<>>
    /\ visited_global' = {}
    /\ UNCHANGED <<pool_tokens, pool_active, max_hops, max_paths_limit>>
    /\ UNCHANGED <<eng_config, calc_config, eng_run_vars>>
    /\ UNCHANGED <<ws_vars, agg_vars, dd_vars, batch_vars, sp_vars, tg_vars>>

\* ArbitrageEngine::update_config
UpdateConfig ==
    /\ eng_pc = "api"
    /\ \E new_config \in Configs :
          LET updated == update_config(eng_config, is_initialized, new_config) IN
          /\ eng_config' = updated.config
          /\ eng_last' = [tick |-> ~eng_last.tick, op |-> "update_config",
                          result |-> updated.result,
                          was_initialized |-> is_initialized,
                          fixed_change |->
                              \/ new_config.max_hops # eng_config.max_hops
                              \/ new_config.max_precomputed_paths
                                     # eng_config.max_precomputed_paths]
    /\ UNCHANGED <<calc_config, is_initialized, precomputed_paths, eng_pc, eng_run_vars>>
    /\ UNCHANGED <<ws_vars, agg_vars, pf_vars, dd_vars, batch_vars, sp_vars, tg_vars>>

\* ArbitrageEngine::process_market_snapshot called by the owner of the engine
ProcessSnapshot ==
    /\ eng_pc = "api"
    /\ \E reserves \in EngineReserves :
          LET snapshot == [block_number |-> 1, pool_reserves |-> reserves]
              processed == process_market_snapshot(eng_config, calc_config,
                               is_initialized, precomputed_paths, snapshot)
          IN  eng_last' = [tick |-> ~eng_last.tick, op |-> "process_market_snapshot",
                           result |-> IF processed.ok THEN "ok" ELSE "err",
                           snapshot |-> snapshot,
                           opportunities |-> processed.opportunities]
    /\ UNCHANGED <<eng_config, calc_config, is_initialized, precomputed_paths, eng_pc,
                   eng_run_vars>>
    /\ UNCHANGED <<ws_vars, agg_vars, pf_vars, dd_vars, batch_vars, sp_vars, tg_vars>>

EngineNext ==
    \/ InitializeAgain
    \/ InitializeBegin
    \/ NextEdge
    \/ NextPool
    \/ EdgeDone
    \/ ReturnPaths
    \/ InitializeEnd
    \/ UpdateConfig
    \/ ProcessSnapshot

EngineSpecInit == WsIdle /\ AggIdle /\ DdIdle /\ EngineInit /\ BatchIdle /\ SpIdle /\ TgIdle

EngineSpec == EngineSpecInit /\ [][EngineNext]_vars

(***************************************************************************)
(* Claims about the evaluator and the engine's API.                        *)
(***************************************************************************)

\* the paths the engine evaluates
EnginePaths == {precomputed_paths[i] : i \in DOMAIN precomputed_paths}

\* the last call was a process_market_snapshot that returned Ok
Processed == eng_last.op = "process_market_snapshot" /\ eng_last.result = "ok"

\* the opportunities of the last process_market_snapshot
Surfaced == {eng_last.opportunities[i] : i \in DOMAIN eng_last.opportunities}

\* C11: for a path with a pool that has no reserves in the snapshot the
\* evaluator returns a failure result ("missing reserves"), and the engine
\* surfaces no opportunity for the path.
C11_MissingReservesFail ==
    Processed =>
        \A path \in EnginePaths :
            (\E i \in DOMAIN path.pools :
                 eng_last.snapshot.pool_reserves[path.pools[i]] = NoReserves)
            => /\ ~calculate_path_profit(calc_config, path,
                                         eng_last.snapshot).calculation_successful
               /\ calculate_path_profit(calc_config, path,
                                        eng_last.snapshot).error_message = "missing_reserves"
               /\ \A opportunity \in Surfaced : opportunity.path # path

\* a snapshot without reserves for one pool of a precomputed path was processed
C11_Witness ==
    /\ Processed
    /\ \E path \in EnginePaths : \E i \in DOMAIN path.pools :
          /\ eng_last.snapshot.pool_reserves[path.pools[i]] = NoReserves
          /\ \E j \in DOMAIN path.pools :
                eng_last.snapshot.pool_reserves[path.pools[j]] # NoReserves

\* C12: every opportunity returned by process_market_snapshot comes from a
\* successful calculation of a precomputed path whose net profit is strictly
\* greater than the configured minimum profit threshold.
C12_SurfacedAboveThreshold ==
    Processed =>
        \A opportunity \in Surfaced :
            /\ opportunity.net_profit_mnt_wei > eng_config.min_profit_threshold_mnt_wei
            /\ opportunity.path \in EnginePaths
            /\ LET result == calculate_path_profit(calc_config, opportunity.path,
                                                   eng_last.snapshot)
               IN  /\ result.calculation_successful
                   /\ result.net_profit_mnt_wei = opportunity.net_profit_mnt_wei

\* with the higher threshold one path is surfaced and another path, whose
\* calculation succeeded, is not
C12_Witness ==
    /\ Processed
    /\ eng_config.min_profit_threshold_mnt_wei = HighThreshold
    /\ Surfaced # {}
    /\ \E path \in EnginePaths :
          /\ calculate_path_profit(calc_config, path, eng_last.snapshot).calculation_successful
          /\ \A opportunity \in Surfaced : opportunity.path # path

\* C13 as stated: initialize on an initialized engine returns an error.
C13_DuplicateInitializeFails ==
    (eng_last.op = "initialize" /\ eng_last.was_initialized) => eng_last.result = "err"

\* C13 as the code has it: initialize on an initialized engine returns Ok and
\* leaves the precomputed paths, the flag and the configuration as they were.
C13_DuplicateInitializeSkipped ==
    [][(eng_last' # eng_last /\ eng_last'.op = "initialize" /\ is_initialized)
         => /\ eng_last'.result = "ok"
            /\ precomputed_paths' = precomputed_paths
            /\ is_initialized'
            /\ eng_config' = eng_config
            /\ calc_config' = calc_config]_vars

C13_Witness ==
    /\ eng_last.op = "initialize"
    /\ eng_last.was_initialized
    /\ eng_last.result = "ok"
    /\ precomputed_paths # <<>>

\* C14: after initialize has succeeded, update_config with a different max_hops
\* or max_precomputed_paths returns an error and leaves the configuration as it
\* was; before initialization the same change is accepted.
C14_FixedSettingsAfterInitialize ==
    [][(eng_last' # eng_last /\ eng_last'.op = "update_config" /\ eng_last'.fixed_change)
         => IF is_initialized
            THEN /\ eng_last'.result = "err"
                 /\ eng_config' = eng_config
                 /\ calc_config' = calc_config
            ELSE /\ eng_last'.result = "ok"
                 /\ \/ eng_config'.max_hops # eng_config.max_hops
                    \/ eng_config'.max_precomputed_paths # eng_config.max_precomputed_paths]_vars

C14_Witness ==
    /\ eng_last.op = "update_config"
    /\ eng_last.was_initialized
    /\ eng_last.fixed_change
    /\ eng_last.result = "err"

\* the sequences over `elements` of length up to n
ListsOver(elements, n) == UNION {[1..k -> elements] : k \in 0..n}

\* the calculator's configuration with the given mode
WithMode(config, parallel) == [config EXCEPT !.enable_parallel_calculation = parallel]

\* C29: for any path list and snapshot, evaluation in parallel mode returns the
\* same result vector as evaluation in sequential mode, whatever the order in
\* which the workers finish: one result per path, at the index of its path.
C29_ParallelEqualsSequential ==
    Processed =>
        \A paths \in ListsOver(EnginePaths, MaxPathList) :
            LET sequential == calculate_profits_parallel(WithMode(calc_config, FALSE),
                                                         paths, eng_last.snapshot)
            IN  /\ Len(sequential) = Len(paths)
                /\ \A i \in DOMAIN paths : sequential[i].path = paths[i]
                /\ calculate_profits_parallel(WithMode(calc_config, TRUE),
                                              paths, eng_last.snapshot) = sequential
                /\ \A order \in CompletionOrders(Len(paths)) :
                      par_iter_map_collect(WithMode(calc_config, TRUE), paths,
                                           eng_last.snapshot, order) = sequential

\* two precomputed paths whose results differ in more than the path
C29_Witness ==
    /\ Processed
    /\ Len(precomputed_paths) = 2
    /\ calculate_path_profit(calc_config, precomputed_paths[1],
                             eng_last.snapshot).net_profit_mnt_wei
         # calculate_path_profit(calc_config, precomputed_paths[2],
                                 eng_last.snapshot).net_profit_mnt_wei

(***************************************************************************)
(* The run loop: ArbitrageEngine::start_real_time_processing, fed by the   *)
(* market data channel and followed by the consumer of the opportunity     *)
(* channel.  A batch is the Vec<ArbitrageOpportunity> sent; block_number   *)
(* records the snapshot it was computed from.                              *)
(***************************************************************************)

\* the configurations of the run loop
RunConfigs ==
    {c \in InitialConfigs : c.max_hops = 3 /\ c.max_precomputed_paths = MaxPathsCfg}

\* the reserves the data layer reports: an opportunity in one direction, none
RunReserves ==
    { << <<40000, 10000>>, <<40000, 40000>>, <<40000, 40000>> >>,
      << <<1000, 1500>>, <<1000, 1000>>, <<1000, 1000>> >> }

RunInit ==
    /\ EngineNew(RunConfigs)
    /\ market_data_receiver = NoReceiver
    /\ market_tx_open = FALSE
    /\ next_snapshot = 1
    /\ opportunity_chan = <<>>
    /\ opportunity_rx_open = TRUE
    /\ pending_batch = <<>>
    /\ batches_received = <<>>

run_engine_vars == <<eng_config, calc_config, is_initialized, precomputed_paths,
                     optimal_input>>

\* ArbitrageEngine::set_market_data_receiver
SetMarketDataReceiver ==
    /\ eng_pc = "api"
    /\ ~market_data_receiver.set
    /\ ~market_tx_open
    /\ next_snapshot = 1
    /\ market_data_receiver' = [set |-> TRUE, queue |-> <<>>]
    /\ market_tx_open' = TRUE
    /\ UNCHANGED <<run_engine_vars, eng_pc, eng_last, next_snapshot, opportunity_chan,
                   opportunity_rx_open, pending_batch, batches_received>>
    /\ UNCHANGED <<ws_vars, agg_vars, pf_vars, dd_vars, batch_vars, sp_vars, tg_vars>>

\* start_real_time_processing, lines 131-137: the two early returns and take()
StartRealTimeProcessing ==
    /\ eng_pc = "api"
    /\ IF ~is_initialized \/ ~market_data_receiver.set
       THEN /\ eng_last' = [tick |-> ~eng_last.tick, op |-> "start_real_time_processing",
                            result |-> "err"]
            /\ UNCHANGED <<eng_pc, market_data_receiver>>
       ELSE /\ eng_pc' = "recv"
            /\ market_data_receiver' = [market_data_receiver EXCEPT !.set = FALSE]
            /\ UNCHANGED eng_last
    /\ UNCHANGED <<run_engine_vars, market_tx_open, next_snapshot, opportunity_chan,
                   opportunity_rx_open, pending_batch, batches_received>>
    /\ UNCHANGED <<ws_vars, agg_vars, pf_vars, dd_vars, batch_vars, sp_vars, tg_vars>>

\* the data layer sends a snapshot on the market data channel
ProduceSnapshot ==
    /\ market_tx_open
    /\ next_snapshot <= MaxSnapshots
    /\ Len(market_data_receiver.queue) < SnapChanCap
    /\ \E reserves \in RunReserves :
          market_data_receiver' =
              [market_data_receiver EXCEPT
                  !.queue = Append(@, [block_number |-> next_snapshot,
                                       pool_reserves |-> reserves])]
    /\ next_snapshot' = next_snapshot + 1
    /\ UNCHANGED <<run_engine_vars, eng_pc, eng_last, market_tx_open, opportunity_chan,
                   opportunity_rx_open, pending_batch, batches_received>>
    /\ UNCHANGED <<ws_vars, agg_vars, pf_vars, dd_vars, batch_vars, sp_vars, tg_vars>>

\* the data layer drops its sender
CloseSnapshots ==
    /\ market_tx_open
    /\ market_tx_open' = FALSE
    /\ UNCHANGED <<run_engine_vars, eng_pc, eng_last, market_data_receiver, next_snapshot,
                   opportunity_chan, opportunity_rx_open, pending_batch, batches_received>>
    /\ UNCHANGED <<ws_vars, agg_vars, pf_vars, dd_vars, batch_vars, sp_vars, tg_vars>>

\* variant: the loop sends every batch, empty or not
ShouldSendAlways(opportunities) == TRUE

\* line 145: if !opportunities.is_empty()
ShouldSend(opportunities) == opportunities # <<>>

\* the loop has ended, line 161-162
LoopReturned ==
    [tick |-> ~eng_last.tick, op |-> "start_real_time_processing", result |-> "ok"]

\* lines 143-159: recv() yields a snapshot, it is processed and the batch is
\* sent if the channel has room; otherwise the send waits
EngineRecv ==
    /\ eng_pc = "recv"
    /\ market_data_receiver.queue # <<>>
    /\ market_data_receiver' = [market_data_receiver EXCEPT !.queue = Tail(@)]
    /\ LET snapshot == Head(market_data_receiver.queue)
           processed == process_market_snapshot(eng_config, calc_config, is_initialized,
                                                precomputed_paths, snapshot)
           batch == [block_number |-> snapshot.block_number,
                     opportunities |-> processed.opportunities]
       IN  IF processed.ok /\ ShouldSend(processed.opportunities)
           THEN IF ~opportunity_rx_open
                THEN /\ eng_pc' = "returned"
                     /\ eng_last' = LoopReturned
                     /\ UNCHANGED <<opportunity_chan, pending_batch>>
                ELSE IF Len(opportunity_chan) < OppChanCap
                THEN /\ opportunity_chan' = Append(opportunity_chan, batch)
                     /\ UNCHANGED <<eng_pc, eng_last, pending_batch>>
                ELSE /\ pending_batch' = <<batch>>
                     /\ eng_pc' = "sending"
                     /\ UNCHANGED <<eng_last, opportunity_chan>>
           ELSE UNCHANGED <<eng_pc, eng_last, opportunity_chan, pending_batch>>
    /\ UNCHANGED <<run_engine_vars, market_tx_open, next_snapshot, opportunity_rx_open,
                   batches_received>>
    /\ UNCHANGED <<ws_vars, agg_vars, pf_vars, dd_vars, batch_vars, sp_vars, tg_vars>>

\* line 149-152: the waiting send completes, or fails because the receiver is gone
EngineSendDone ==
    /\ eng_pc = "sending"
    /\ IF ~opportunity_rx_open
       THEN /\ eng_pc' = "returned"
            /\ eng_last' = LoopReturned
            /\ pending_batch' = <<>>
            /\ UNCHANGED opportunity_chan
       ELSE /\ Len(opportunity_chan) < OppChanCap
            /\ opportunity_chan' = Append(opportunity_chan, pending_batch[1])
            /\ pending_batch' = <<>>
            /\ eng_pc' = "recv"
            /\ UNCHANGED eng_last
    /\ UNCHANGED <<run_engine_vars, market_data_receiver, market_tx_open, next_snapshot,
                   opportunity_rx_open, batches_received>>
    /\ UNCHANGED <<ws_vars, agg_vars, pf_vars, dd_vars, batch_vars, sp_vars, tg_vars>>

\* line 142: recv() yields None, the channel is closed and empty
EngineLoopEnd ==
    /\ eng_pc = "recv"
    /\ market_data_receiver.queue = <<>>
    /\ ~market_tx_open
    /\ eng_pc' = "returned"
    /\ eng_last' = LoopReturned
    /\ UNCHANGED <<run_engine_vars, market_data_receiver, market_tx_open, next_snapshot,
                   opportunity_chan, opportunity_rx_open, pending_batch, batches_received>>
    /\ UNCHANGED <<ws_vars, agg_vars, pf_vars, dd_vars, batch_vars, sp_vars, tg_vars>>

\* the consumer takes a batch from the opportunity channel
ConsumerRecvBatch ==
    /\ opportunity_rx_open
    /\ opportunity_chan # <<>>
    /\ batches_received' = Append(batches_received, Head(opportunity_chan))
    /\ opportunity_chan' = Tail(opportunity_chan)
    /\ UNCHANGED <<run_engine_vars, eng_pc, eng_last, market_data_receiver, market_tx_open,
                   next_snapshot, opportunity_rx_open, pending_batch>>
    /\ UNCHANGED <<ws_vars, agg_vars, pf_vars, dd_vars, batch_vars, sp_vars, tg_vars>>

\* the consumer drops its receiver
OpportunityConsumerDrop ==
    /\ opportunity_rx_open
    /\ opportunity_rx_open' = FALSE
    /\ UNCHANGED <<run_engine_vars, eng_pc, eng_last, market_data_receiver, market_tx_open,
                   next_snapshot, opportunity_chan, pending_batch, batches_received>>
    /\ UNCHANGED <<ws_vars, agg_vars, pf_vars, dd_vars, batch_vars, sp_vars, tg_vars>>

RunNext ==
    \/ InitializeBegin
    \/ NextEdge
    \/ NextPool
    \/ EdgeDone
    \/ ReturnPaths
    \/ InitializeEnd
    \/ SetMarketDataReceiver
    \/ StartRealTimeProcessing
    \/ ProduceSnapshot
    \/ CloseSnapshots
    \/ EngineRecv
    \/ EngineSendDone
    \/ EngineLoopEnd
    \/ ConsumerRecvBatch
    \/ OpportunityConsumerDrop

RunSpecInit == WsIdle /\ AggIdle /\ DdIdle /\ RunInit /\ BatchIdle /\ SpIdle /\ TgIdle

RunSpec == RunSpecInit /\ [][RunNext]_vars

\* the batches the opportunity channel has accepted, in the order of sending
BatchesSent == batches_received \o opportunity_chan

\* C15: for each snapshot it consumes the run loop sends at most one batch,
\* never an empty one, and the batches are sent in the order in which their
\* snapshots were received: the batches sent are non-empty, each belongs to a
\* snapshot already taken from the channel, and their snapshots are strictly
\* increasing.
C15_OneOrderedBatchPerSnapshot ==
    /\ \A i \in DOMAIN BatchesSent :
          /\ BatchesSent[i].opportunities # <<>>
          /\ BatchesSent[i].block_number < next_snapshot
          /\ \A k \in DOMAIN market_data_receiver.queue :
                BatchesSent[i].block_number < market_data_receiver.queue[k].block_number
    /\ \A i, j \in DOMAIN BatchesSent :
          i < j => BatchesSent[i].block_number < BatchesSent[j].block_number
    /\ pending_batch # <<>> =>
          /\ pending_batch[1].opportunities # <<>>
          /\ \A i \in DOMAIN BatchesSent :
                BatchesSent[i].block_number < pending_batch[1].block_number

\* three snapshots were consumed: the first and the third gave a batch, the
\* second gave none
C15_Witness ==
    /\ eng_pc = "returned"
    /\ Len(batches_received) = 2
    /\ batches_received[1].block_number = 1
    /\ batches_received[2].block_number = 3
    /\ market_data_receiver.queue = <<>>

\* C32: after a successful update_config, every later snapshot evaluation uses
\* the new values of all updatable settings: the opportunities returned are
\* those the engine's current configuration gives for threshold, gas price,
\* gas per transaction and evaluation mode.
C32_EvaluationUsesUpdatedConfig ==
    Processed =>
        eng_last.opportunities =
            process_market_snapshot(eng_config, eng_config, is_initialized,
                                    precomputed_paths, eng_last.snapshot).opportunities

\* a pool of the path has reserves with a zero in the snapshot, and the swap
\* simulation fails for every amount try_fixed_input_amounts probes
SimulationFailsForEveryAmount(path, snapshot) ==
    /\ \E i \in DOMAIN path.pools :
          /\ get_pool_reserves(snapshot, path.pools[i]) # NoReserves
          /\ 0 \in Range(get_pool_reserves(snapshot, path.pools[i]))
    /\ \A k \in DOMAIN TestAmounts : ~simulate_swap_path(path, snapshot, TestAmounts[k]).ok

\* C36: when the swap simulation fails for every probed input amount (a pool
\* of the path has a zero reserve), the evaluator's result for the path is a
\* failure result, not a success result.
C36_FailedSimulationIsFailure ==
    Processed =>
        \A i \in DOMAIN precomputed_paths :
            SimulationFailsForEveryAmount(precomputed_paths[i], eng_last.snapshot)
                => ~calculate_path_profit(calc_config, precomputed_paths[i],
                                          eng_last.snapshot).calculation_successful

(***************************************************************************)
(* DataAggregator::aggregate_market_data batch by batch.  The monitored    *)
(* pools are the ids of the values of the market's pool map, so no pool    *)
(* occurs twice; pools are numbered in the order the map yields them.      *)
(***************************************************************************)

\* the reserves getReserves returns for a pool at a block
ReservesAt(pool, block) == <<pool, block>>

\* DataAggregator::split_pools_into_batches
split_pools_into_batches(pools, size) ==
    IF pools = <<>> THEN << <<>> >>
    ELSE [b \in 1..((Len(pools) + size - 1) \div size) |->
              SubSeq(pools, (b - 1) * size + 1, Min(b * size, Len(pools)))]

\* let pool_batches
pool_batches == split_pools_into_batches(monitored_pools, max_pools_per_batch)

\* HashMap::insert of every entry of `entries` into `map`
InsertAll(map, entries) ==
    [pool \in DOMAIN map \cup DOMAIN entries |->
        IF pool \in DOMAIN entries THEN entries[pool] ELSE map[pool]]

\* the values the market's pool map yields, filtered by the disabled set
MonitoredChoices ==
    {pools \in UNION {[1..n -> 1..MaxBatchPools] : n \in 0..MaxBatchPools} :
        \A i, j \in DOMAIN pools : i < j => pools[i] < pools[j]}

BatchInit ==
    /\ max_pools_per_batch \in 1..MaxBatchSize
    /\ BatchNew

\* aggregate_market_data, lines 48-77: block number, empty pool list, new snapshot
AggregateBegin ==
    /\ aggregate_pc \in {"idle", "returned"}
    /\ blocks_aggregated < MaxBlocks
    /\ blocks_aggregated' = blocks_aggregated + 1
    /\ \E header \in Headers(blocks_aggregated + 1), pools \in MonitoredChoices :
          /\ monitored_pools' = pools
          /\ IF ~block_number(header).ok
             THEN /\ aggregate_result' = [ok |-> FALSE, pending |-> FALSE]
                  /\ aggregate_pc' = "returned"
             ELSE IF pools = <<>>
             THEN /\ aggregate_result' =
                        [ok |-> TRUE,
                         snapshot |-> [block_number |-> block_number(header).value,
                                       enabled_pools |-> {},
                                       pool_reserves |-> <<>>]]
                  /\ aggregate_pc' = "returned"
             ELSE /\ aggregate_result' =
                        [ok |-> FALSE, pending |-> TRUE,
                         block_number |-> block_number(header).value]
                  /\ aggregate_pc' = "batches"
    /\ batch_idx' = 1
    /\ all_pool_data' = <<>>
    /\ total_successful' = 0
    /\ total_failed' = 0
    /\ failed_batches' = {}
    /\ read_reserves' = <<>>
    /\ UNCHANGED <<max_pools_per_batch, previous_reserves>>
    /\ UNCHANGED <<ws_vars, agg_vars, pf_vars, dd_vars, eng_vars, sp_vars, tg_vars>>

\* lines 82-95: batch_get_reserves returns Ok; each pool has reserves or None
BatchOk ==
    /\ aggregate_pc = "batches"
    /\ batch_idx <= Len(pool_batches)
    /\ \E decoded \in SUBSET Range(pool_batches[batch_idx]) :
          LET batch_results ==
                  [pool \in Range(pool_batches[batch_idx]) |->
                      IF pool \in decoded THEN ReservesAt(pool, blocks_aggregated)
                      ELSE NoReserves]
          IN  /\ all_pool_data' = InsertAll(all_pool_data, batch_results)
              /\ total_successful' = total_successful + Cardinality(decoded)
              /\ total_failed' = total_failed
                                   + Len(pool_batches[batch_idx]) - Cardinality(decoded)
              /\ read_reserves' =
                     InsertAll(read_reserves,
                               [pool \in decoded |-> batch_results[pool]])
    /\ batch_idx' = batch_idx + 1
    /\ UNCHANGED <<monitored_pools, max_pools_per_batch, aggregate_pc, previous_reserves,
                   aggregate_result, failed_batches, blocks_aggregated>>
    /\ UNCHANGED <<ws_vars, agg_vars, pf_vars, dd_vars, eng_vars, sp_vars, tg_vars>>

\* variant: the pools of a failed batch keep the reserves of the previous block
failed_batch_data_stale(batch, previous) ==
    [pool \in Range(batch) |->
        IF pool \in DOMAIN previous THEN previous[pool] ELSE NoReserves]

\* lines 102-105: every pool of the failed batch is marked None
failed_batch_data(batch, previous) == [pool \in Range(batch) |-> NoReserves]

\* lines 96-106: batch_get_reserves returns Err
BatchErr ==
    /\ aggregate_pc = "batches"
    /\ batch_idx <= Len(pool_batches)
    /\ all_pool_data' =
           InsertAll(all_pool_data,
                     failed_batch_data(pool_batches[batch_idx], previous_reserves))
    /\ total_failed' = total_failed + Len(pool_batches[batch_idx])
    /\ failed_batches' = failed_batches \cup {batch_idx}
    /\ batch_idx' = batch_idx + 1
    /\ UNCHANGED <<monitored_pools, max_pools_per_batch, aggregate_pc, total_successful,
                   previous_reserves, aggregate_result, read_reserves, blocks_aggregated>>
    /\ UNCHANGED <<ws_vars, agg_vars, pf_vars, dd_vars, eng_vars, sp_vars, tg_vars>>

\* variant: every pool of all_pool_data, read or not
WithReservesOrNot(data) == DOMAIN data

\* the pools of all_pool_data that have reserves
WithReserves(data) == {pool \in DOMAIN data : data[pool] # NoReserves}

\* lines 109-163: the snapshot takes the reserves that are Some, previous_reserves
\* is updated with them, and the snapshot is returned
AggregateEnd ==
    /\ aggregate_pc = "batches"
    /\ batch_idx > Len(pool_batches)
    /\ aggregate_result' =
           [ok |-> TRUE,
            snapshot |-> [block_number |-> aggregate_result.block_number,
                          enabled_pools |-> Range(monitored_pools),
                          pool_reserves |->
                              [pool \in WithReserves(all_pool_data) |->
                                  all_pool_data[pool]]]]
    /\ previous_reserves' =
           InsertAll(previous_reserves,
                     [pool \in WithReserves(all_pool_data) |-> all_pool_data[pool]])
    /\ aggregate_pc' = "returned"
    /\ UNCHANGED <<monitored_pools, max_pools_per_batch, batch_idx, all_pool_data,
                   total_successful, total_failed, failed_batches, read_reserves,
                   blocks_aggregated>>
    /\ UNCHANGED <<ws_vars, agg_vars, pf_vars, dd_vars, eng_vars, sp_vars, tg_vars>>

BatchNext ==
    \/ AggregateBegin
    \/ BatchOk
    \/ BatchErr
    \/ AggregateEnd

BatchSpecInit == WsIdle /\ AggIdle /\ PfIdle /\ DdIdle /\ EngIdle /\ BatchInit /\ SpIdle /\ TgIdle

BatchSpec == BatchSpecInit /\ [][BatchNext]_vars

\* C16: if the multicall of a batch fails as a whole, aggregation still returns
\* a snapshot; the snapshot has no reserves for any pool of a failed batch and
\* has the reserves of every pool read successfully in the other batches.
C16_FailedBatchOnlyLosesItsPools ==
    (aggregate_pc = "returned" /\ failed_batches # {}) =>
        /\ aggregate_result.ok
        /\ \A b \in failed_batches : \A pool \in Range(pool_batches[b]) :
              pool \notin DOMAIN aggregate_result.snapshot.pool_reserves
        /\ \A pool \in DOMAIN read_reserves :
              /\ pool \in DOMAIN aggregate_result.snapshot.pool_reserves
              /\ aggregate_result.snapshot.pool_reserves[pool] = read_reserves[pool]

\* a batch failed whose pool had reserves in the previous block, and another
\* batch of the same block was read
C16_Witness ==
    /\ aggregate_pc = "returned"
    /\ aggregate_result.ok
    /\ read_reserves # <<>>
    /\ \E b \in failed_batches : \E pool \in Range(pool_batches[b]) :
          pool \in DOMAIN previous_reserves

\* C31: the previous-reserves entry of a pool changes only when a read of that
\* pool succeeds, and then to the reserves read; failed batches, per-pool
\* failures and blocks for which nothing is aggregated leave the entry as it
\* was, and no entry is ever removed.
C31_PreviousReservesChangeOnlyOnRead ==
    [][/\ DOMAIN previous_reserves \subseteq DOMAIN previous_reserves'
       /\ \A pool \in DOMAIN previous_reserves' :
             (pool \notin DOMAIN previous_reserves \/ previous_reserves'[pool] # previous_reserves[pool])
                 => /\ pool \in DOMAIN read_reserves
                    /\ previous_reserves'[pool] = read_reserves[pool]]_vars

\* the second block has been aggregated; a pool read in the first block was
\* not read in the second and keeps its entry, while another pool was read
C31_Witness ==
    /\ aggregate_pc = "returned"
    /\ blocks_aggregated = 2
    /\ read_reserves # <<>>
    /\ \E pool \in Range(monitored_pools) :
          /\ pool \notin DOMAIN read_reserves
          /\ pool \in DOMAIN previous_reserves
          /\ previous_reserves[pool] = ReservesAt(pool, 1)

(***************************************************************************)
(* SwapPath (logic/graph/swap_path.rs): two values built by new,           *)
(* new_first, push_swap_hop and invert.  A token is its address            *)
(* (Token::eq), a pool is its address (PoolWrapper::eq compares the pool   *)
(* id, which MockPool derives from the address).                           *)
(***************************************************************************)

\* Address::repeat_byte(1), the first token of the tests
TOKEN1 == 1

\* the addresses the tokens and pools of the paths carry
SwapAddresses == {WMNT, TOKEN1}

Slots == {"p", "q"}

\* the vectors passed to SwapPath::new
AddressLists(n) == UNION {[1..k -> SwapAddresses] : k \in 0..n}

\* SwapPath::new
new(tokens, pools) ==
    [tokens |-> tokens, pools |-> pools, pools_map |-> {pools[i] : i \in DOMAIN pools},
     swap_path_hash |-> generate_swap_path_hash(tokens, pools)]

\* SwapPath::is_empty
is_empty(path) == path.tokens = <<>> /\ path.pools = <<>>

\* impl PartialEq for SwapPath
SwapPathEq(a, b) == a.tokens = b.tokens /\ a.pools = b.pools

\* tokens plus pools of a path
Items(path) == Len(path.tokens) + Len(path.pools)

SwapPathInit == swap_paths = [slot \in Slots |-> new(<<>>, <<>>)]

\* a slot is assigned SwapPath::new(tokens, pools)
SpNew ==
    /\ \E slot \in Slots, tokens, pools \in AddressLists(MaxPathItems) :
          /\ Len(tokens) + Len(pools) <= MaxPathItems
          /\ swap_paths' = [swap_paths EXCEPT ![slot] = new(tokens, pools)]
    /\ UNCHANGED <<ws_vars, agg_vars, pf_vars, dd_vars, eng_vars, batch_vars, tg_vars>>

\* a slot is assigned SwapPath::new_first(token_from, token_to, pool)
SpNewFirst ==
    /\ \E slot \in Slots, token_from, token_to, pool \in SwapAddresses :
          swap_paths' = [swap_paths EXCEPT ![slot] = new_first(token_from, token_to, pool)]
    /\ UNCHANGED <<ws_vars, agg_vars, pf_vars, dd_vars, eng_vars, batch_vars, tg_vars>>

\* path.push_swap_hop(token_to, pool): Err on an empty path
SpPushSwapHop ==
    /\ \E slot \in Slots, token_to, pool \in SwapAddresses :
          /\ Items(swap_paths[slot]) + 2 <= MaxPathItems
          /\ swap_paths' =
                 [swap_paths EXCEPT ![slot] =
                     IF is_empty(@) THEN @ ELSE push_swap_hop(@, token_to, pool)]
    /\ UNCHANGED <<ws_vars, agg_vars, pf_vars, dd_vars, eng_vars, batch_vars, tg_vars>>

\* a slot is assigned the inversion of a path
SpInvert ==
    /\ \E slot, from \in Slots :
          swap_paths' = [swap_paths EXCEPT ![slot] = invert(swap_paths[from])]
    /\ UNCHANGED <<ws_vars, agg_vars, pf_vars, dd_vars, eng_vars, batch_vars, tg_vars>>

SwapPathNext ==
    \/ SpNew
    \/ SpNewFirst
    \/ SpPushSwapHop
    \/ SpInvert

SwapPathSpecInit ==
    WsIdle /\ AggIdle /\ PfIdle /\ DdIdle /\ EngIdle /\ BatchIdle /\ SwapPathInit /\ TgIdle

SwapPathSpec == SwapPathSpecInit /\ [][SwapPathNext]_vars

\* C26: for every SwapPath p, p.invert().invert() has the same token sequence,
\* the same pool sequence and the same hash as p.
C26_InvertTwiceIsIdentity ==
    \A slot \in Slots :
        LET p == swap_paths[slot]
            twice == invert(invert(p))
        IN  /\ twice.tokens = p.tokens
            /\ twice.pools = p.pools
            /\ twice.swap_path_hash = p.swap_path_hash

\* q is the inversion of p, and differs from p in tokens, pools and hash
C26_Witness ==
    /\ swap_paths["q"] = invert(swap_paths["p"])
    /\ swap_paths["q"].tokens # swap_paths["p"].tokens
    /\ swap_paths["q"].swap_path_hash # swap_paths["p"].swap_path_hash
    /\ Len(swap_paths["p"].pools) >= 1

\* C27: two SwapPaths compare equal exactly when their stored hashes are equal,
\* and exactly when their token sequences and pool sequences are equal.
C27_EqualIffSameHash ==
    LET p == swap_paths["p"]
        q == swap_paths["q"]
    IN  /\ SwapPathEq(p, q) <=> (p.swap_path_hash = q.swap_path_hash)
        /\ SwapPathEq(p, q) <=> (p.tokens = q.tokens /\ p.pools = q.pools)

(***************************************************************************)
(* TokenGraph (graph/token_graph.rs) and find_all_paths                    *)
(* (graph/path_builder.rs).  A node index is a position of nodes, an edge  *)
(* index a position of edges; an edge carries its two end nodes and its    *)
(* HashMap<PoolId, PoolEdge>.  A pool is id, token0, token1 (MockPool);    *)
(* its id is its address.                                                  *)
(***************************************************************************)

\* Address::ZERO, the native token
NATIVE == 2

\* constants::WETH, the address build_swap_paths looks up from a native start
WETH == 3

\* Token::is_native
is_native(token) == token = NATIVE

\* the tokens the pools offered are made of
GraphTokens == {WMNT, TOKEN1, NATIVE}

\* the pools there can be over some tokens: MockPool { address, token0, token1 };
\* the pool id is the address, and a pool has the same two tokens all its
\* life.  The two orders of a pair differ only in the order
\* get_swap_directions lists the directions, which no operation depends on;
\* one order is kept.
ChainPoolsOver(tokens, n) ==
    {pools \in [1..n -> [id : 1..n, token0 : tokens, token1 : tokens]] :
        \A id \in 1..n : pools[id].id = id /\ pools[id].token0 < pools[id].token1}

ChainPools == ChainPoolsOver(GraphTokens, MaxGraphPools)

\* the pools offered to the graph and the market
GraphPools == {chain_pools[id] : id \in DOMAIN chain_pools}

\* Pool::get_swap_directions of MockPool
get_swap_directions(pool) == <<<<pool.token0, pool.token1>>, <<pool.token1, pool.token0>>>>

\* Pool::get_tokens of MockPool
get_tokens(pool) == <<pool.token0, pool.token1>>

\* HashMap::insert
Insert(map, key, value) == [k \in DOMAIN map \cup {key} |-> IF k = key THEN value ELSE map[k]]

\* PoolEdge::new
PoolEdgeNew(pool_wrapper) == [is_active |-> TRUE, inner |-> pool_wrapper]

\* TokenGraph::add_or_get_token_idx_by_address (and _by_token): the graph after it
add_or_get_token_idx(graph, address) ==
    IF address \in DOMAIN graph.token_index
    THEN graph
    ELSE [graph EXCEPT !.nodes = Append(@, address),
                       !.token_index = Insert(@, address, Len(graph.nodes) + 1),
                       !.tokens = @ \cup {address}]

\* UnGraph::find_edge: an edge between the two nodes in either direction, 0 for None
find_edge(graph, a, b) ==
    LET found == {e \in DOMAIN graph.edges : graph.edges[e].ends = {a, b}}
    IN  IF found = {} THEN 0 ELSE CHOOSE e \in found : \A other \in found : e <= other

\* variant: the pool is inserted into the edge's map whether or not it is there
add_pool_direction_reinserting(graph, pool_wrapper, direction) ==
    LET node_from == graph.token_index[direction[1]]
        node_to == graph.token_index[direction[2]]
        edge_index == find_edge(graph, node_from, node_to)
    IN  IF edge_index # 0
        THEN [graph EXCEPT !.edges[edge_index].pools = Insert(@, pool_wrapper.id, PoolEdgeNew(pool_wrapper)),
                           !.pool_index = Insert(@, pool_wrapper.id, edge_index)]
        ELSE [graph EXCEPT !.edges = Append(@, [ends |-> {node_from, node_to},
                                                pools |-> Insert(<<>>, pool_wrapper.id, PoolEdgeNew(pool_wrapper))]),
                           !.pool_index = Insert(@, pool_wrapper.id, Len(graph.edges) + 1)]

\* one round of the loop of TokenGraph::add_pool, both tokens being nodes
add_pool_direction(graph, pool_wrapper, direction) ==
    LET node_from == graph.token_index[direction[1]]
        node_to == graph.token_index[direction[2]]
        edge_index == find_edge(graph, node_from, node_to)
    IN  IF edge_index # 0
        THEN IF pool_wrapper.id \in DOMAIN graph.edges[edge_index].pools
             THEN graph
             ELSE [graph EXCEPT !.edges[edge_index].pools = Insert(@, pool_wrapper.id, PoolEdgeNew(pool_wrapper)),
                                !.pool_index = Insert(@, pool_wrapper.id, edge_index)]
        ELSE [graph EXCEPT !.edges = Append(@, [ends |-> {node_from, node_to},
                                                pools |-> Insert(<<>>, pool_wrapper.id, PoolEdgeNew(pool_wrapper))]),
                           !.pool_index = Insert(@, pool_wrapper.id, Len(graph.edges) + 1)]

\* the tokens of a direction are both in token_index
DirectionKnown(graph, direction) ==
    direction[1] \in DOMAIN graph.token_index /\ direction[2] \in DOMAIN graph.token_index

\* variant: the missing tokens are added as nodes before the edges
add_pool_adding_tokens(graph, pool) ==
    LET with_tokens == add_or_get_token_idx(add_or_get_token_idx(graph, pool.token0), pool.token1)
        directions == get_swap_directions(pool)
        second == add_pool_direction(add_pool_direction(with_tokens, pool, directions[1]), pool, directions[2])
    IN  [graph |-> [second EXCEPT !.pools = Insert(@, pool.id, pool)], ok |-> TRUE]

\* variant: the pool is put into the pool map before its tokens are looked up
add_pool_registering_first(graph, pool) ==
    LET directions == get_swap_directions(pool)
        registered == [graph EXCEPT !.pools = Insert(@, pool.id, pool)]
    IN  IF ~DirectionKnown(graph, directions[1])
        THEN [graph |-> registered, ok |-> FALSE]
        ELSE [graph |-> add_pool_direction(add_pool_direction(registered, pool, directions[1]),
                                           pool, directions[2]),
              ok |-> TRUE]

\* TokenGraph::add_pool: the graph after it and whether it returned Ok
add_pool(graph, pool) ==
    LET directions == get_swap_directions(pool)
    IN  IF ~DirectionKnown(graph, directions[1])
        THEN [graph |-> graph, ok |-> FALSE]
        ELSE LET first == add_pool_direction(graph, pool, directions[1])
             IN  IF ~DirectionKnown(first, directions[2])
                 THEN [graph |-> first, ok |-> FALSE]
                 ELSE LET second == add_pool_direction(first, pool, directions[2])
                      IN  [graph |-> [second EXCEPT !.pools = Insert(@, pool.id, pool)],
                           ok |-> TRUE]

\* TokenGraph::set_pool_active: the graph after it and whether it returned Ok
set_pool_active(graph, pool_id, active) ==
    IF pool_id \notin DOMAIN graph.pool_index
    THEN [graph |-> graph, ok |-> FALSE]
    ELSE LET edge_index == graph.pool_index[pool_id]
         IN  IF edge_index \notin DOMAIN graph.edges
             THEN [graph |-> graph, ok |-> FALSE]
             ELSE IF pool_id \notin DOMAIN graph.edges[edge_index].pools
             THEN [graph |-> graph, ok |-> FALSE]
             ELSE [graph |-> [graph EXCEPT !.edges[edge_index].pools[pool_id].is_active = active],
                   ok |-> TRUE]

\* the edges of a node (UnGraph::edges)
EdgesOf(graph, node) == {e \in DOMAIN graph.edges : node \in graph.edges[e].ends}

\* EdgeReference::target of an edge reached from node
Target(graph, e, node) ==
    IF graph.edges[e].ends = {node} THEN node ELSE CHOOSE n \in graph.edges[e].ends : n # node

\* the loop of find_all_paths from one PathState: the paths it inserts.  The
\* stack is unfolded into recursion; the cap of 500_000 iterations is out of
\* reach of the graphs explored.
RECURSIVE SearchFrom(_, _, _, _, _, _, _)
SearchFrom(graph, node, current_path, hops, reached_end, end_node, hops_allowed) ==
    IF node = end_node
    THEN IF Len(current_path.pools) > 1 THEN {current_path} ELSE {}
    ELSE IF hops >= hops_allowed \/ reached_end
    THEN {}
    ELSE UNION {
           UNION {
             LET to_token == graph.nodes[Target(graph, e, node)]
             IN  SearchFrom(graph, Target(graph, e, node),
                            push_swap_hop(current_path, to_token, pool_id),
                            hops + 1, is_wrapped(to_token), end_node, hops_allowed) :
             pool_id \in {id \in DOMAIN graph.edges[e].pools :
                            /\ graph.edges[e].pools[id].is_active
                            /\ ~contains_pool(current_path, id)}} :
           e \in EdgesOf(graph, node)}

\* find_all_paths with allow_duplicate_first = false
find_all_paths(graph, initial_swap_path, start_node, end_node, hops_allowed) ==
    IF initial_swap_path.tokens = <<>> \/ is_wrapped(initial_swap_path.tokens[Len(initial_swap_path.tokens)])
    THEN [ok |-> FALSE, paths |-> {}]
    ELSE [ok |-> TRUE,
          paths |-> SearchFrom(graph, start_node, initial_swap_path, 1, FALSE, end_node, hops_allowed)]

\* the tokens build_swap_paths searches back to from a first hop out of from_token
SearchEnds(graph, from_token) ==
    IF is_wrapped(from_token)
    THEN {from_token} \cup ({NATIVE} \cap DOMAIN graph.token_index)
    ELSE IF is_native(from_token)
    THEN {NATIVE, WETH} \cap DOMAIN graph.token_index
    ELSE {}

\* one round of the loop of build_swap_paths, both tokens being nodes
DirectionPaths(graph, pool, direction, hops_allowed) ==
    IF is_wrapped(direction[2])
    THEN {}
    ELSE UNION {find_all_paths(graph, new_first(direction[1], direction[2], pool.id),
                               graph.token_index[direction[2]], graph.token_index[end],
                               hops_allowed).paths :
                end \in SearchEnds(graph, direction[1])}

\* TokenGraph::build_swap_paths: the paths returned (every found path and its
\* inversion) and whether it returned Ok
build_swap_paths(graph, pool, hops_allowed) ==
    LET directions == get_swap_directions(pool)
    IN  IF \E i \in 1..2 : ~DirectionKnown(graph, directions[i]) \/ ~(directions[i][1] \in graph.tokens /\ directions[i][2] \in graph.tokens)
        THEN [ok |-> FALSE, paths |-> {}]
        ELSE LET total_swap_paths == DirectionPaths(graph, pool, directions[1], hops_allowed)
                                         \cup DirectionPaths(graph, pool, directions[2], hops_allowed)
             IN  [ok |-> TRUE,
                  paths |-> total_swap_paths \cup {invert(path) : path \in total_swap_paths}]

\* Market::add_pool: the market after it.  The expect on TokenGraph::add_pool
\* cannot fail, the tokens having just been added.
market_add_pool(market, pool) ==
    IF pool.id \in DOMAIN market.token_graph.pools
    THEN market
    ELSE LET with_tokens == add_or_get_token_idx(
                                add_or_get_token_idx(market.token_graph, get_tokens(pool)[1]),
                                get_tokens(pool)[2])
             directions == get_swap_directions(pool)
         IN  [token_graph |-> add_pool(with_tokens, pool).graph,
              market_without_lock |->
                  [market.market_without_lock EXCEPT
                      !.pools_exists = @ \cup {pool.id},
                      !.token_to_pool = @ \cup {new_first(directions[i][1], directions[i][2], pool.id) :
                                                  i \in 1..2}]]

\* Market::disable_pool: the market after it and whether it returned Ok
disable_pool(market, pool_id) ==
    LET result == set_pool_active(market.token_graph, pool_id, FALSE)
    IN  [market |-> [token_graph |-> result.graph,
                     market_without_lock |->
                         [market.market_without_lock EXCEPT !.pools_disabled = @ \cup {pool_id}]],
         ok |-> result.ok]

\* variant: the pool stays in the disabled set
enable_pool_keeping_disabled(market, pool_id) ==
    LET result == set_pool_active(market.token_graph, pool_id, TRUE)
    IN  [market |-> [token_graph |-> result.graph,
                     market_without_lock |-> market.market_without_lock],
         ok |-> result.ok]

\* Market::enable_pool: the market after it and whether it returned Ok
enable_pool(market, pool_id) ==
    LET result == set_pool_active(market.token_graph, pool_id, TRUE)
    IN  [market |-> [token_graph |-> result.graph,
                     market_without_lock |->
                         [market.market_without_lock EXCEPT !.pools_disabled = @ \ {pool_id}]],
         ok |-> result.ok]

\* Market::enabled_pools mapped to ids, as DataSyncService::get_monitored_pools does
get_monitored_pools(market) ==
    {pool_id \in DOMAIN market.token_graph.pools :
        pool_id \notin market.market_without_lock.pools_disabled}

\* the Market the variables hold
TheMarket == [token_graph |-> token_graph, market_without_lock |-> market_without_lock]

(***************************************************************************)
(* GraphSpec: a TokenGraph driven through its own API, from                *)
(* TokenGraph::new.                                                        *)
(***************************************************************************)

GraphInit ==
    /\ token_graph = TokenGraphNew
    /\ market_without_lock = MarketWithoutLockNew
    /\ mk_last = NoMarketCall
    /\ task_pc = <<>>
    /\ chain_pools \in ChainPools

\* token_graph.add_or_get_token_idx_by_token(token)
TgAddToken ==
    /\ \E address \in GraphTokens :
          /\ token_graph' = add_or_get_token_idx(token_graph, address)
          /\ mk_last' = [op |-> "add_token", id |-> address, ok |-> TRUE]
    /\ UNCHANGED <<market_without_lock, task_pc, chain_pools>>
    /\ UNCHANGED <<ws_vars, agg_vars, pf_vars, dd_vars, eng_vars, batch_vars, sp_vars>>

\* token_graph.add_pool(pool)
TgAddPool ==
    /\ \E pool \in GraphPools :
          LET result == add_pool(token_graph, pool)
          IN  /\ token_graph' = result.graph
              /\ mk_last' = [op |-> "add_pool", id |-> pool.id, ok |-> result.ok,
                             missing |-> ~DirectionKnown(token_graph, get_tokens(pool)),
                             again |-> pool.id \in DOMAIN token_graph.pools]
    /\ UNCHANGED <<market_without_lock, task_pc, chain_pools>>
    /\ UNCHANGED <<ws_vars, agg_vars, pf_vars, dd_vars, eng_vars, batch_vars, sp_vars>>

\* token_graph.set_pool_active(pool_id, is_active)
TgSetPoolActive ==
    /\ \E pool_id \in DOMAIN chain_pools, active \in BOOLEAN :
          LET result == set_pool_active(token_graph, pool_id, active)
          IN  /\ token_graph' = result.graph
              /\ mk_last' = [op |-> "set_pool_active", id |-> pool_id, ok |-> result.ok]
    /\ UNCHANGED <<market_without_lock, task_pc, chain_pools>>
    /\ UNCHANGED <<ws_vars, agg_vars, pf_vars, dd_vars, eng_vars, batch_vars, sp_vars>>

\* token_graph.build_swap_paths(pool, max_hops)
TgBuildSwapPaths ==
    /\ \E pool \in GraphPools, hops_allowed \in 1..MaxGraphHops :
          LET result == build_swap_paths(token_graph, pool, hops_allowed)
          IN  mk_last' = [op |-> "build_swap_paths", id |-> pool.id, ok |-> result.ok,
                          paths |-> result.paths]
    /\ UNCHANGED <<token_graph, market_without_lock, task_pc, chain_pools>>
    /\ UNCHANGED <<ws_vars, agg_vars, pf_vars, dd_vars, eng_vars, batch_vars, sp_vars>>

GraphNext ==
    \/ TgAddToken
    \/ TgAddPool
    \/ TgSetPoolActive
    \/ TgBuildSwapPaths

GraphSpecInit ==
    WsIdle /\ AggIdle /\ PfIdle /\ DdIdle /\ EngIdle /\ BatchIdle /\ SpIdle /\ GraphInit

GraphSpec == GraphSpecInit /\ [][GraphNext]_vars

\* C28: every path returned by build_swap_paths(pool, max_hops) starts and
\* ends at the wrapped base token, in every graph including one that contains
\* the native token.
C28_BuiltPathsAreCycles ==
    mk_last.op = "build_swap_paths" =>
        \A path \in mk_last.paths :
            /\ is_wrapped(path.tokens[1])
            /\ is_wrapped(path.tokens[Len(path.tokens)])

\* the edges whose map holds the pool id
EdgesHolding(graph, pool_id) == {e \in DOMAIN graph.edges : pool_id \in DOMAIN graph.edges[e].pools}

\* C21 as stated: TokenGraph.add_pool called with a pool whose tokens are not
\* yet nodes succeeds, first adding the missing tokens as nodes.
C21_AddPoolAddsMissingTokens ==
    (mk_last.op = "add_pool" /\ mk_last.missing) =>
        /\ mk_last.ok
        /\ {chain_pools[mk_last.id].token0, chain_pools[mk_last.id].token1} \subseteq token_graph.tokens

\* C21: TokenGraph.add_pool called with a pool one of whose tokens is not a
\* node of the graph returns an error and leaves the graph as it was.
C21_AddPoolRejectsMissingTokens ==
    [][(mk_last'.op = "add_pool" /\ ~DirectionKnown(token_graph, get_tokens(chain_pools[mk_last'.id])))
          => (~mk_last'.ok /\ token_graph' = token_graph)]_vars

\* add_pool has just been refused for a missing token, in a graph that has nodes
C21_Witness ==
    /\ mk_last.op = "add_pool"
    /\ mk_last.missing
    /\ ~mk_last.ok
    /\ token_graph.tokens # {}

\* C22: adding the same pool a second time leaves the graph exactly as it was
\* after the first add, through TokenGraph.add_pool and through
\* Market.add_pool: no edge gains a second entry for the pool, and the node,
\* edge and pool counts are unchanged.
C22_SecondAddChangesNothing ==
    \A pool \in GraphPools :
        pool.id \in DOMAIN token_graph.pools =>
            /\ add_pool(token_graph, pool) = [graph |-> token_graph, ok |-> TRUE]
            /\ market_add_pool(TheMarket, pool) = TheMarket
            /\ Cardinality(EdgesHolding(token_graph, pool.id)) = 1

\* a pool that was in the graph, and inactive, has just been added again
C22_Witness ==
    /\ mk_last.op = "add_pool"
    /\ mk_last.again
    /\ mk_last.ok
    /\ \E e \in EdgesHolding(token_graph, mk_last.id) : ~token_graph.edges[e].pools[mk_last.id].is_active

TaskIds == DOMAIN chain_pools

\* the history before any call: no pool added, none disabled
MarketHistoryNew ==
    [op |-> "none", id |-> 0, ok |-> TRUE, follows_disable |-> FALSE,
     added |-> {}, disabled |-> {}, monitored |-> {}]

\* Market::new: the graph holds the WMNT token
MarketInit ==
    /\ token_graph = add_or_get_token_idx(TokenGraphNew, WMNT)
    /\ market_without_lock = MarketWithoutLockNew
    /\ mk_last = MarketHistoryNew
    /\ chain_pools \in ChainPools
    /\ task_pc \in {<<>>, [t \in 1..MaxGraphPools |-> "start"]}

\* the market is replaced by the one a call leaves
SetMarket(market) ==
    /\ token_graph' = market.token_graph
    /\ market_without_lock' = market.market_without_lock

\* DataSyncService::add_pool(pool), which always returns Ok
ServiceAddPool(pool) ==
    /\ SetMarket(market_add_pool(TheMarket, pool))
    /\ mk_last' = [mk_last EXCEPT !.op = "add_pool", !.id = pool.id, !.ok = TRUE,
                                  !.follows_disable = FALSE, !.added = @ \cup {pool.id}]

\* DataSyncService::disable_pool(pool_id)
ServiceDisablePool(pool_id) ==
    LET result == disable_pool(TheMarket, pool_id)
    IN  /\ SetMarket(result.market)
        /\ mk_last' = [mk_last EXCEPT !.op = "disable_pool", !.id = pool_id, !.ok = result.ok,
                                      !.follows_disable = FALSE,
                                      !.disabled = IF result.ok THEN @ \cup {pool_id} ELSE @]

\* DataSyncService::enable_pool(pool_id)
ServiceEnablePool(pool_id) ==
    LET result == enable_pool(TheMarket, pool_id)
    IN  /\ SetMarket(result.market)
        /\ mk_last' = [mk_last EXCEPT !.op = "enable_pool", !.id = pool_id, !.ok = result.ok,
                                      !.follows_disable =
                                          mk_last.op = "disable_pool" /\ mk_last.id = pool_id /\ mk_last.ok,
                                      !.disabled = IF result.ok THEN @ \ {pool_id} ELSE @]

\* a free caller adds a pool
CallAddPool ==
    /\ task_pc = <<>>
    /\ \E pool \in GraphPools : ServiceAddPool(pool)
    /\ UNCHANGED <<task_pc, chain_pools>>
    /\ UNCHANGED <<ws_vars, agg_vars, pf_vars, dd_vars, eng_vars, batch_vars, sp_vars>>

\* a free caller disables a pool
CallDisablePool ==
    /\ task_pc = <<>>
    /\ \E pool_id \in DOMAIN chain_pools : ServiceDisablePool(pool_id)
    /\ UNCHANGED <<task_pc, chain_pools>>
    /\ UNCHANGED <<ws_vars, agg_vars, pf_vars, dd_vars, eng_vars, batch_vars, sp_vars>>

\* a free caller enables a pool
CallEnablePool ==
    /\ task_pc = <<>>
    /\ \E pool_id \in DOMAIN chain_pools : ServiceEnablePool(pool_id)
    /\ UNCHANGED <<task_pc, chain_pools>>
    /\ UNCHANGED <<ws_vars, agg_vars, pf_vars, dd_vars, eng_vars, batch_vars, sp_vars>>

\* DataSyncService::get_monitored_pools, under the read lock
CallGetMonitoredPools ==
    /\ mk_last' = [mk_last EXCEPT !.op = "get_monitored_pools", !.id = 0, !.ok = TRUE,
                                  !.follows_disable = FALSE,
                                  !.monitored = get_monitored_pools(TheMarket)]
    /\ UNCHANGED <<token_graph, market_without_lock, task_pc, chain_pools>>
    /\ UNCHANGED <<ws_vars, agg_vars, pf_vars, dd_vars, eng_vars, batch_vars, sp_vars>>

\* a task of the test adds its own pool
TaskAddPool ==
    /\ \E t \in DOMAIN task_pc :
          /\ task_pc[t] = "start"
          /\ ServiceAddPool(chain_pools[t])
          /\ task_pc' = [task_pc EXCEPT ![t] = "added"]
    /\ UNCHANGED chain_pools
    /\ UNCHANGED <<ws_vars, agg_vars, pf_vars, dd_vars, eng_vars, batch_vars, sp_vars>>

\* a task of the test disables its own pool and ends
TaskDisablePool ==
    /\ \E t \in DOMAIN task_pc :
          /\ task_pc[t] = "added"
          /\ ServiceDisablePool(t)
          /\ task_pc' = [task_pc EXCEPT ![t] = "done"]
    /\ UNCHANGED chain_pools
    /\ UNCHANGED <<ws_vars, agg_vars, pf_vars, dd_vars, eng_vars, batch_vars, sp_vars>>

MarketNext ==
    \/ CallAddPool
    \/ CallDisablePool
    \/ CallEnablePool
    \/ CallGetMonitoredPools
    \/ TaskAddPool
    \/ TaskDisablePool

MarketSpecInit ==
    WsIdle /\ AggIdle /\ PfIdle /\ DdIdle /\ EngIdle /\ BatchIdle /\ SpIdle /\ MarketInit

MarketSpec == MarketSpecInit /\ [][MarketNext]_vars

\* the edges of a graph with every is_active flag of the pool set
WithActive(graph, pool_id) ==
    [e \in DOMAIN graph.edges |->
        [graph.edges[e] EXCEPT !.pools =
            [id \in DOMAIN @ |-> IF id = pool_id THEN [@[id] EXCEPT !.is_active = TRUE] ELSE @[id]]]]

\* the market after disable_pool(id); enable_pool(id)
DisabledThenEnabled(pool_id) == enable_pool(disable_pool(TheMarket, pool_id).market, pool_id)

\* tokens, pools and edges are as before the two calls, with the pool active
GraphRestored(pool_id) ==
    LET after == DisabledThenEnabled(pool_id).market.token_graph
    IN  /\ DisabledThenEnabled(pool_id).ok
        /\ after.nodes = token_graph.nodes
        /\ after.tokens = token_graph.tokens
        /\ after.token_index = token_graph.token_index
        /\ after.pools = token_graph.pools
        /\ after.pool_index = token_graph.pool_index
        /\ after.edges = WithActive(token_graph, pool_id)
        /\ \E e \in EdgesHolding(after, pool_id) : after.edges[e].pools[pool_id].is_active

\* C24 as stated: for a pool present in the market, disable_pool(id) followed
\* by enable_pool(id) leaves the tokens, pools, edges and the set of disabled
\* pools exactly as they were before the two calls, with the pool active.
C24_DisableEnableRestoresAll ==
    \A pool_id \in DOMAIN token_graph.pools :
        /\ GraphRestored(pool_id)
        /\ DisabledThenEnabled(pool_id).market.market_without_lock.pools_disabled
               = market_without_lock.pools_disabled

\* C24: for a pool present in the market, disable_pool(id) followed by
\* enable_pool(id) leaves the tokens, pools and edges as they were with the
\* pool active, and the set of disabled pools as it was less id.
C24_DisableEnableLeavesEnabled ==
    \A pool_id \in DOMAIN token_graph.pools :
        /\ GraphRestored(pool_id)
        /\ DisabledThenEnabled(pool_id).market.market_without_lock.pools_disabled
               = market_without_lock.pools_disabled \ {pool_id}
        /\ DisabledThenEnabled(pool_id).market.market_without_lock.pools_exists
               = market_without_lock.pools_exists
        /\ DisabledThenEnabled(pool_id).market.market_without_lock.token_to_pool
               = market_without_lock.token_to_pool

\* enable_pool has just followed disable_pool of the same present pool, while
\* another pool stays disabled
C24_Witness ==
    /\ mk_last.op = "enable_pool"
    /\ mk_last.follows_disable
    /\ mk_last.ok
    /\ mk_last.id \in DOMAIN token_graph.pools
    /\ mk_last.id \notin market_without_lock.pools_disabled
    /\ market_without_lock.pools_disabled # {}

\* C25: under any interleaving of add_pool, disable_pool and enable_pool calls
\* on the service, get_monitored_pools returns exactly the pools that have
\* been added and are not currently disabled; once every task has added and
\* then disabled its own pool, no pool is monitored.
C25_MonitoredIsAddedNotDisabled ==
    mk_last.op = "get_monitored_pools" =>
        /\ mk_last.monitored = mk_last.added \ mk_last.disabled
        /\ (task_pc # <<>> /\ \A t \in DOMAIN task_pc : task_pc[t] = "done")
               => mk_last.monitored = {}

\* Market::enabled_pools
enabled_pools(market) ==
    {pool_id \in DOMAIN market.token_graph.pools :
        pool_id \notin market.market_without_lock.pools_disabled}

\* Market::total_enabled_pools: pools.len() - pools_disabled.len() in usize.
\* Below zero the subtraction panics (overflow checks on) or wraps to
\* 2^64 - difference (overflow checks off); -1 stands for both outcomes, neither
\* of which is a number of pools.
total_enabled_pools(market) ==
    LET pools_len == Cardinality(DOMAIN market.token_graph.pools)
        disabled_len == Cardinality(market.market_without_lock.pools_disabled)
    IN  IF pools_len >= disabled_len THEN pools_len - disabled_len ELSE -1

\* the pool exists in the graph and its edge entry is inactive
InactiveInGraph(graph, pool_id) ==
    /\ pool_id \in DOMAIN graph.pools
    /\ EdgesHolding(graph, pool_id) # {}
    /\ \A e \in EdgesHolding(graph, pool_id) : ~graph.edges[e].pools[pool_id].is_active

\* C38: a pool id is in the market's disabled set if and only if the pool
\* exists in the graph and its edge entry is inactive, also after disable_pool
\* or enable_pool returned an error for an unknown pool id; and
\* total_enabled_pools() equals the number of pools enabled_pools() returns.
C38_DisabledSetMatchesGraph ==
    /\ \A pool_id \in DOMAIN chain_pools :
          pool_id \in market_without_lock.pools_disabled
              <=> InactiveInGraph(token_graph, pool_id)
    /\ total_enabled_pools(TheMarket) = Cardinality(enabled_pools(TheMarket))

(***************************************************************************)
(* SearchSpec: build_swap_paths over a market that holds MaxSearchPools    *)
(* pools between WMNT and two other tokens, none of them the native token. *)
(***************************************************************************)

\* Address::repeat_byte(2), the second token of the tests
TOKEN2 == 4

RECURSIVE MarketWith(_, _)
\* Market::new followed by add_pool of the first n pools
MarketWith(pools, n) ==
    IF n = 0
    THEN [token_graph |-> add_or_get_token_idx(TokenGraphNew, WMNT),
          market_without_lock |-> MarketWithoutLockNew]
    ELSE market_add_pool(MarketWith(pools, n - 1), pools[n])

SearchInit ==
    /\ chain_pools \in ChainPoolsOver({WMNT, TOKEN1, TOKEN2}, MaxSearchPools)
    /\ token_graph = MarketWith(chain_pools, MaxSearchPools).token_graph
    /\ market_without_lock = MarketWith(chain_pools, MaxSearchPools).market_without_lock
    /\ mk_last = NoMarketCall
    /\ task_pc = <<>>

\* token_graph.build_swap_paths(pool, max_hops) for a pool of the market
SearchBuildSwapPaths ==
    /\ \E pool \in GraphPools, hops_allowed \in 1..MaxSearchPools :
          LET result == build_swap_paths(token_graph, pool, hops_allowed)
          IN  mk_last' = [op |-> "build_swap_paths", id |-> pool.id, ok |-> result.ok,
                          paths |-> result.paths]
    /\ UNCHANGED <<token_graph, market_without_lock, task_pc, chain_pools>>
    /\ UNCHANGED <<ws_vars, agg_vars, pf_vars, dd_vars, eng_vars, batch_vars, sp_vars>>

SearchNext ==
    \/ TgSetPoolActive
    \/ SearchBuildSwapPaths

SearchSpecInit ==
    WsIdle /\ AggIdle /\ PfIdle /\ DdIdle /\ EngIdle /\ BatchIdle /\ SpIdle /\ SearchInit

SearchSpec == SearchSpecInit /\ [][SearchNext]_vars

\* a token other than WMNT occurs at two positions of the path
RevisitsToken(path) ==
    \E i, j \in DOMAIN path.tokens :
        i < j /\ path.tokens[i] = path.tokens[j] /\ ~is_wrapped(path.tokens[i])

\* C35: no path returned by the cycle enumerators visits a token other than
\* WBASE more than once; here for the paths find_all_paths returns to
\* build_swap_paths.
C35_NoTokenRevisit ==
    mk_last.op = "build_swap_paths" => \A path \in mk_last.paths : ~RevisitsToken(path)

(***************************************************************************)
(* ContainerSpec: threads sharing an Arc<MarketWithoutLock> call           *)
(* add_swap_path and remove_pool (graph/swap_paths_container.rs).          *)
(* swap_path_hashes is a DashSet and pool_paths a DashMap: every single    *)
(* operation on them is atomic, and one step here; nothing makes a whole   *)
(* call atomic.  task_pc[t] is the position of thread t in its call.       *)
(***************************************************************************)

\* the pools the paths go through
ContainerPools == 1..MaxGraphPools

\* the paths added: one hop through a pool, and the two-hop cycles
\* WMNT -> TOKEN1 -> WMNT through two different pools
ContainerPaths ==
    {new(<<WMNT, TOKEN1>>, <<a>>) : a \in ContainerPools}
        \cup {new(<<WMNT, TOKEN1, WMNT>>, pools) :
                 pools \in {ab \in [1..2 -> ContainerPools] : ab[1] # ab[2]}}

\* a thread between two calls, having made `calls` calls
Between(calls) ==
    [pc |-> "idle", calls |-> calls, swap_path |-> <<>>, pool_id |-> 0,
     swap_paths_for_deletion |-> {}, i |-> 0]

ContainerInit ==
    /\ token_graph = TokenGraphNew
    /\ market_without_lock = MarketWithoutLockNew
    /\ mk_last = NoMarketCall
    /\ task_pc = [t \in 1..MaxContainerThreads |-> Between(0)]
    /\ chain_pools = <<>>

\* the container the threads share
TheContainer == market_without_lock.swap_paths

\* the shared container is replaced, thread t moves on
ContainerStep(t, container, thread) ==
    /\ market_without_lock' = [market_without_lock EXCEPT !.swap_paths = container]
    /\ task_pc' = [task_pc EXCEPT ![t] = thread]
    /\ UNCHANGED <<token_graph, mk_last, chain_pools>>
    /\ UNCHANGED <<ws_vars, agg_vars, pf_vars, dd_vars, eng_vars, batch_vars, sp_vars>>

\* the call of thread t returns
Return(thread) == Between(thread.calls + 1)

\* pool_paths.get(pool_id): the map of the pool, or NoReserves-like absence
HasEntry(container, pool_id) == pool_id \in DOMAIN container.pool_paths

\* a map without a key
RemoveKey(map, key) == [k \in DOMAIN map \ {key} |-> map[k]]

\* a thread calls add_swap_path(market_without_lock, path)
CallAddSwapPath ==
    \E t \in DOMAIN task_pc, path \in ContainerPaths :
        /\ task_pc[t].pc = "idle"
        /\ task_pc[t].calls < MaxContainerCalls
        /\ ContainerStep(t, TheContainer,
               [task_pc[t] EXCEPT !.pc = "add_contains", !.swap_path = path])

\* a thread calls remove_pool(market_without_lock, pool_id)
CallRemovePool ==
    \E t \in DOMAIN task_pc, pool_id \in ContainerPools :
        /\ task_pc[t].pc = "idle"
        /\ task_pc[t].calls < MaxContainerCalls
        /\ ContainerStep(t, TheContainer,
               [task_pc[t] EXCEPT !.pc = "remove_check", !.pool_id = pool_id])

\* add_swap_path: if !swap_path_hashes.contains(&swap_path.swap_path_hash)
AddContains ==
    \E t \in DOMAIN task_pc :
        /\ task_pc[t].pc = "add_contains"
        /\ ContainerStep(t, TheContainer,
               IF task_pc[t].swap_path.swap_path_hash \in TheContainer.swap_path_hashes
               THEN Return(task_pc[t])
               ELSE [task_pc[t] EXCEPT !.pc = "add_insert_hash"])

\* add_swap_path: swap_path_hashes.insert(swap_path.swap_path_hash.clone())
AddInsertHash ==
    \E t \in DOMAIN task_pc :
        /\ task_pc[t].pc = "add_insert_hash"
        /\ ContainerStep(t,
               [TheContainer EXCEPT !.swap_path_hashes = @ \cup {task_pc[t].swap_path.swap_path_hash}],
               [task_pc[t] EXCEPT !.pc = "add_pool_paths", !.i = 1])

\* add_swap_path: one iteration of `for pool in swap_path.pools.iter()`:
\* pool_paths.entry(pool_id).or_default().insert(hash, swap_path)
AddInsertPoolPath ==
    \E t \in DOMAIN task_pc :
        /\ task_pc[t].pc = "add_pool_paths"
        /\ LET path == task_pc[t].swap_path
               pool_id == path.pools[task_pc[t].i]
               entry == IF HasEntry(TheContainer, pool_id)
                        THEN TheContainer.pool_paths[pool_id] ELSE <<>>
           IN  ContainerStep(t,
                   [TheContainer EXCEPT !.pool_paths =
                       Insert(@, pool_id, Insert(entry, path.swap_path_hash, path))],
                   IF task_pc[t].i = Len(path.pools)
                   THEN Return(task_pc[t])
                   ELSE [task_pc[t] EXCEPT !.i = @ + 1])

\* remove_pool: if pool_paths.get(pool_id).is_none() { return; }
RemoveCheck ==
    \E t \in DOMAIN task_pc :
        /\ task_pc[t].pc = "remove_check"
        /\ ContainerStep(t, TheContainer,
               IF ~HasEntry(TheContainer, task_pc[t].pool_id)
               THEN Return(task_pc[t])
               ELSE [task_pc[t] EXCEPT !.pc = "remove_clone"])

\* the position after a path of the copy is dealt with
AfterPath(thread) ==
    IF thread.swap_paths_for_deletion = {}
    THEN [thread EXCEPT !.pc = "remove_entry"]
    ELSE [thread EXCEPT !.pc = "remove_hash"]

\* remove_pool: pool_paths.get(pool_id).unwrap().clone(); the unwrap panics
\* when another thread has removed the entry since the check
RemoveClone ==
    \E t \in DOMAIN task_pc :
        /\ task_pc[t].pc = "remove_clone"
        /\ ContainerStep(t, TheContainer,
               IF ~HasEntry(TheContainer, task_pc[t].pool_id)
               THEN [task_pc[t] EXCEPT !.pc = "panicked"]
               ELSE AfterPath([task_pc[t] EXCEPT !.swap_paths_for_deletion =
                                  Range(TheContainer.pool_paths[task_pc[t].pool_id])]))

\* remove_pool: the next (swap_path_hash, swap_path) of the copy, in the
\* arbitrary order of the HashMap: swap_path_hashes.remove(&swap_path_hash)
RemoveHash ==
    \E t \in DOMAIN task_pc :
        /\ task_pc[t].pc = "remove_hash"
        /\ \E path \in task_pc[t].swap_paths_for_deletion :
              ContainerStep(t,
                  [TheContainer EXCEPT !.swap_path_hashes = @ \ {path.swap_path_hash}],
                  [task_pc[t] EXCEPT !.pc = "remove_pool_paths", !.swap_path = path,
                                     !.swap_paths_for_deletion = @ \ {path}, !.i = 1])

\* remove_pool: one iteration of `for pool in swap_path.pools.iter()`:
\* if let Some(mut pool_paths) = pool_paths.get_mut(..) { pool_paths.remove(&hash) }
RemovePoolPath ==
    \E t \in DOMAIN task_pc :
        /\ task_pc[t].pc = "remove_pool_paths"
        /\ LET path == task_pc[t].swap_path
               pool_id == path.pools[task_pc[t].i]
           IN  ContainerStep(t,
                   IF HasEntry(TheContainer, pool_id)
                   THEN [TheContainer EXCEPT !.pool_paths[pool_id] =
                            RemoveKey(@, path.swap_path_hash)]
                   ELSE TheContainer,
                   IF task_pc[t].i = Len(path.pools)
                   THEN AfterPath(task_pc[t])
                   ELSE [task_pc[t] EXCEPT !.i = @ + 1])

\* remove_pool: pool_paths.remove(pool_id), and the call returns
RemoveEntry ==
    \E t \in DOMAIN task_pc :
        /\ task_pc[t].pc = "remove_entry"
        /\ ContainerStep(t,
               [TheContainer EXCEPT !.pool_paths = RemoveKey(@, task_pc[t].pool_id)],
               Return(task_pc[t]))

ContainerNext ==
    \/ CallAddSwapPath
    \/ CallRemovePool
    \/ AddContains
    \/ AddInsertHash
    \/ AddInsertPoolPath
    \/ RemoveCheck
    \/ RemoveClone
    \/ RemoveHash
    \/ RemovePoolPath
    \/ RemoveEntry

ContainerSpecInit ==
    WsIdle /\ AggIdle /\ PfIdle /\ DdIdle /\ EngIdle /\ BatchIdle /\ SpIdle /\ ContainerInit

ContainerSpec == ContainerSpecInit /\ [][ContainerNext]_vars

\* SwapPathsContainer::get_pool_paths_vec as a set
get_pool_paths_vec(container, pool_id) ==
    IF HasEntry(container, pool_id) THEN Range(container.pool_paths[pool_id]) ELSE {}

\* every call made has returned
AllReturned == \A t \in DOMAIN task_pc : task_pc[t].pc = "idle"

\* the path is stored under every one of its pools
StoredUnderEveryPool(container, path) ==
    \A i \in DOMAIN path.pools : path \in get_pool_paths_vec(container, path.pools[i])

\* C39: under any interleaving of concurrent add_swap_path and remove_pool
\* calls, once all calls have returned a path hash is in the hash set if and
\* only if the path is stored under every one of its pools, and no stored path
\* contains a removed pool (a pool under which it is no longer stored).
C39_HashesMatchPoolPaths ==
    AllReturned =>
        /\ \A path \in ContainerPaths :
              path.swap_path_hash \in TheContainer.swap_path_hashes
                  <=> StoredUnderEveryPool(TheContainer, path)
        /\ \A pool_id \in ContainerPools :
              \A path \in get_pool_paths_vec(TheContainer, pool_id) :
                  StoredUnderEveryPool(TheContainer, path)

====
